---- MODULE Spec2Model ----
(***************************************************************************)
(* Model of the market-data gateway (dashboard-financeiro backend):        *)
(*   - the Brapi request wrapper and its tenacity retry decorator          *)
(*     (backend/providers/brapi_provider.py, backend/services/             *)
(*     brapi_service.py);                                                  *)
(*   - the indicators aggregation of the Yahoo provider                    *)
(*     (backend/providers/yahoo_provider.py);                              *)
(*   - the provider registry and its request-scoped provider lifecycle     *)
(*     (backend/services/provider_manager.py);                             *)
(*   - the route handlers and the response envelope                        *)
(*     (backend/routes/market_routes.py, backend/main.py,                  *)
(*     backend/utils/response.py);                                         *)
(*   - the Yahoo lookups behind get_historical_prices and the indicators   *)
(*     (backend/providers/yahoo_provider.py);                              *)
(*   - the parsing of a quote into a HistoricalPrice by the Brapi provider *)
(*     (backend/providers/brapi_provider.py);                              *)
(*   - requests that hold providers concurrently while the registry is     *)
(*     written (backend/services/provider_manager.py);                     *)
(*   - the mappings and the timestamp of the envelope builders             *)
(*     (backend/utils/response.py).                                        *)
(* Each part has its own specification over the shared variable tuple;     *)
(* a specification leaves the variables of the other parts at their        *)
(* initial values.                                                         *)
(***************************************************************************)
EXTENDS Integers, Sequences, FiniteSets, TLC

VARIABLES
    rq_pc,            \* position of the Brapi call: "idle", "attempt", "awaiting", "done"
    rq_in,            \* arguments of the call in progress
    attempt_number,   \* tenacity's attempt counter of the call in progress
    gets,             \* upstream GETs issued by the call in progress
    read_wait,        \* seconds the GET under way has waited since data last came
    replies,          \* upstream replies received by the call, in order
    waits,            \* backoff waits slept by the call, in seconds
    rq_out,           \* how the call ended
    ind_pc,           \* position of get_market_indicators: "idle", a section, "done"
    ind_ticker,       \* ticker of the aggregation in progress
    ind_in,           \* ind_in[section]: what the info lookup of its sub-call gives
    result,           \* result[section]: "unset", "data" or "null"
    errors,           \* names of the failed sections, in order of failure
    not_found_error,  \* the last 404 exception caught, or NoNotFound
    executed,         \* executed[section]: times the sub-call was run
    observed,         \* observed[section]: how the sub-call ended, or "notrun"
    ind_out,          \* what get_market_indicators returned or raised
    providers,        \* ProviderManager._providers: name -> class, None if absent
    default_providers,\* ProviderManager._default_providers: route -> name, None if absent
    req,              \* the get_provider block of the request being handled
    instances,        \* provider instances constructed so far, by instance id
    mgr_last,         \* the last administrative call and whether it raised
    rt_pc,            \* position of the HTTP request being handled: "idle",
                      \* "awaiting_get", "closing", "done"
    rt_in,            \* its path and the 'provider' query parameter it carries
    rt_held,          \* the provider its get_provider block resolved and holds
    rt_op,            \* how the provider operation it ran ended
    rt_resp,          \* the response it was answered with
    yh_pc,            \* position of the YahooProvider call: "idle", "done"
    yh_in,            \* its operation, ticker, range and interval
    yh_up,            \* what the Yahoo Finance lookups came back with
    yh_out,           \* how get_historical_prices ended
    yh_ind,           \* how get_market_indicators ended
    yh_sub,           \* how an indicator sub-query called on its own ended
    hp_pc,            \* position of BrapiProvider.get_historical_prices: "idle", "done"
    hp_data,          \* the data its _make_request returned
    hp_out,           \* what it returned or raised
    cc_req,           \* cc_req[r]: the get_provider block of concurrent request r
    cc_inst,          \* provider instances constructed for concurrent requests
    ev_pc,            \* position of the ResponseUtil call: "idle", "done"
    ev_in,            \* its arguments, and the clock and zone offset it reads
    ev_caller,        \* the caller's metadata or details mapping after the call
    ev_out            \* the envelope it returned

rqVars == <<rq_pc, rq_in, attempt_number, gets, read_wait, replies, waits, rq_out>>
indVars == <<ind_pc, ind_ticker, ind_in, result, errors, not_found_error, executed,
             observed, ind_out>>
mgrVars == <<providers, default_providers, req, instances, mgr_last>>
rtVars == <<rt_pc, rt_in, rt_held, rt_op, rt_resp>>
yhVars == <<yh_pc, yh_in, yh_up, yh_out, yh_ind, yh_sub>>
hpVars == <<hp_pc, hp_data, hp_out>>
ccVars == <<cc_req, cc_inst>>
evVars == <<ev_pc, ev_in, ev_caller, ev_out>>

None == "None"

(***************************************************************************)
(* Part 1.  Brapi request wrapper                                          *)
(***************************************************************************)

\* The two wrappers that carry the retry decorator.
Variants == {"BrapiProvider", "BrapiService"}

\* Endpoints the wrappers are called with.
Endpoints == {"available", "quote/PETR4", "quote/XYZ123"}

\* Values of the configured auth token (BRAPI_TOKEN).
Tokens == {"tokA", "tokB"}

\* Statuses other than 2xx that the final reply of a GET carries: 3xx
\* replies that no client follows (300 without a Location, 304) and 4xx and
\* 5xx replies.  1xx replies are interim: the HTTP layer of either client
\* consumes them and hands over the reply that follows.
NonSuccessStatuses == {300, 304, 400, 404, 500, 503}

\* Instants (UNIX seconds) that the 'date' of a historical price denotes.
Instants == {0, 86400}

\* The 'date' of one historicalDataPrice entry of a body: a UNIX number, an
\* ISO 8601 string that ends with the given UTC offset, the JSON value true
\* (an int for isinstance, worth 1), or a UNIX number that
\* datetime.fromtimestamp refuses: one beyond the year 9999 (1000000000000),
\* one beyond what the platform's time conversion takes
\* (1000000000000000000), or one beyond the platform's time_t (1e30).
Dates ==
    {[repr |-> "unix", instant |-> i, offset |-> None] : i \in Instants}
    \cup {[repr |-> "iso", instant |-> i, offset |-> o] :
              i \in Instants, o \in {"+00:00", "Z", "-03:00"}}
    \cup {[repr |-> "bool", instant |-> 1, offset |-> None],
          [repr |-> "unix_beyond_year", instant |-> 0, offset |-> None],
          [repr |-> "unix_beyond_gmtime", instant |-> 0, offset |-> None],
          [repr |-> "unix_beyond_time_t", instant |-> 0, offset |-> None]}

\* An entry without a 'date' key.
NoDate == [repr |-> None, instant |-> 0, offset |-> None]

\* Non-empty JSON bodies.  An object is an asset list (no 'results'), has
\* "results": null, or has a list of one result that carries no
\* historicalDataPrice or one entry of it, with or without a date.  A body
\* that is not an object is a number (5) or an array ([1]).
Bodies ==
    {[json |-> "object", results |-> r, has_prices |-> FALSE, date |-> NoDate] :
         r \in {"absent", "null", "list"}}
    \cup {[json |-> "object", results |-> "list", has_prices |-> TRUE, date |-> d] :
              d \in Dates \cup {NoDate}}
    \cup {[json |-> j, results |-> "absent", has_prices |-> FALSE, date |-> NoDate] :
              j \in {"number", "array"}}

NoBody == [json |-> None, results |-> None, has_prices |-> FALSE, date |-> NoDate]

\* What response.json() finds in a reply: data (a non-empty JSON value),
\* {} or another empty value, null, or text that is not JSON.
Contents ==
    {[content |-> c, body |-> NoBody] : c \in {"empty", "null", "badjson"}}
    \cup {[content |-> "data", body |-> b] : b \in Bodies}

\* What one upstream GET can come back with: a transport-level failure
\* (httpx.RequestError / requests RequestException), a reply with a status
\* other than 2xx, or a 2xx reply.  A 304 reply has no body, and the body
\* of a 4xx or 5xx reply is never read.
Replies ==
    {[kind |-> "transport", status |-> 0, content |-> None, body |-> NoBody]}
    \cup {[kind |-> "status", status |-> s, content |-> "badjson", body |-> NoBody] :
              s \in NonSuccessStatuses}
    \cup {[kind |-> "status", status |-> 300, content |-> c.content, body |-> c.body] :
              c \in Contents}
    \cup {[kind |-> c.content, status |-> 200, content |-> c.content, body |-> c.body] :
              c \in Contents}

\* httpx.AsyncClient(timeout=10.0) and requests.get(..., timeout=10): the
\* longest the client waits for data, in seconds.
Timeout == 10

\* stop_after_attempt(3)
StopAfterAttempt == 3
\* wait_exponential(multiplier=1, min=1, max=10)
WaitMultiplier == 1
WaitMin == 1
WaitMax == 10

Min(a, b) == IF a < b THEN a ELSE b
Max(a, b) == IF a > b THEN a ELSE b

RECURSIVE Pow2(_)
Pow2(n) == IF n <= 0 THEN 1 ELSE 2 * Pow2(n - 1)

\* tenacity wait_exponential: multiplier * 2^(attempt_number - 1), clamped
\* to [min, max].
WaitExponential(n) == Max(Max(0, WaitMin), Min(WaitMultiplier * Pow2(n - 1), WaitMax))

\* The error type httpx names in the message of an HTTPStatusError.
ErrorType(status) ==
    CASE status \in 300..399 -> "Redirect response"
      [] status \in 400..499 -> "Client error"
      [] status \in 500..599 -> "Server error"
      [] OTHER -> "Invalid status code"

\* The exception text str(e) of an upstream failure.  The text of an
\* HTTPStatusError names the error type, the status and the requested URL,
\* query string included; the text of a RequestError names no URL.
StrE(in, reply) ==
    IF reply.kind = "status"
    THEN [text |-> ErrorType(reply.status), status |-> reply.status,
          url |-> in.endpoint, query_token |-> in.token]
    ELSE [text |-> "request error", status |-> 0,
          url |-> "", query_token |-> None]

NoStrE == [text |-> "", status |-> 0, url |-> "", query_token |-> None]

\* detail of the HTTPException raised for a non-404 failure: the provider
\* appends str(e), the service does not.
FailDetail(in, reply) ==
    [text |-> "Failed to fetch data from API",
     str_e |-> IF in.variant = "BrapiProvider" THEN StrE(in, reply) ELSE NoStrE]

NoDataDetail == [text |-> "No data available", str_e |-> NoStrE]

HTTPException(status, detail) ==
    [kind |-> "raise", exc |-> "HTTPException", status |-> status,
     detail |-> detail, value |-> NoBody]

\* An exception that is neither an HTTPException nor of the retried type.
Uncaught(exc) ==
    [kind |-> "raise", exc |-> exc, status |-> 0,
     detail |-> [text |-> exc, str_e |-> NoStrE], value |-> NoBody]

\* BrapiService._convert_unix_to_iso on one date: a number (a JSON boolean
\* is one for isinstance) becomes the ISO string of that instant in UTC
\* with '+00:00' replaced by 'Z'; a string ending in '+00:00' gets 'Z' in
\* its place; any other string is kept.
ConvertDate(d) ==
    IF d.repr \in {"unix", "bool"}
    THEN [repr |-> "iso", instant |-> d.instant, offset |-> "Z"]
    ELSE IF d.offset = "+00:00" THEN [d EXCEPT !.offset = "Z"] ELSE d

\* The exception datetime.fromtimestamp raises for a date that is a
\* number, or None: ValueError (year out of range), OSError (value too
\* large for defined data type) or OverflowError (timestamp out of range
\* for platform time_t).
FromTimestampRaises(d) ==
    CASE d.repr = "unix_beyond_year" -> "ValueError"
      [] d.repr = "unix_beyond_gmtime" -> "OSError"
      [] d.repr = "unix_beyond_time_t" -> "OverflowError"
      [] OTHER -> None

\* The exception that leaves BrapiService._convert_unix_to_iso, or None:
\* "'results' in data" on a number and the iteration over a null 'results'
\* raise TypeError, and what datetime.fromtimestamp raises is not caught.
ConvertRaises(body) ==
    CASE body.json = "number" -> "TypeError"
      [] body.json = "object" /\ body.results = "null" -> "TypeError"
      [] body.has_prices -> FromTimestampRaises(body.date)
      [] OTHER -> None

\* The body BrapiService._convert_unix_to_iso returns when nothing raises:
\* the date of each historical price converted, anything else unchanged.
ConvertUnixToIso(body) ==
    IF body.json = "object" /\ body.has_prices /\ body.date # NoDate
    THEN [body EXCEPT !.date = ConvertDate(@)]
    ELSE body

\* response.raise_for_status(): httpx raises for every status that is not
\* 2xx, requests for the statuses from 400 to 599.
RaisesForStatus(variant, status) ==
    IF variant = "BrapiProvider"
    THEN status \notin 200..299
    ELSE status \in 400..599

\* The rest of the try block once raise_for_status has passed:
\* response.json(), the emptiness test and the return.
JsonOutcome(in, reply) ==
    CASE reply.content = "data" ->
           \* the provider returns data, the service the converted data
           IF in.variant = "BrapiProvider"
           THEN [kind |-> "return", exc |-> None, status |-> 200,
                 detail |-> [text |-> "data", str_e |-> NoStrE],
                 value |-> reply.body]
           ELSE IF ConvertRaises(reply.body) # None
           THEN Uncaught(ConvertRaises(reply.body))
           ELSE [kind |-> "return", exc |-> None, status |-> 200,
                 detail |-> [text |-> "data", str_e |-> NoStrE],
                 value |-> ConvertUnixToIso(reply.body)]
      [] reply.content \in {"empty", "null"} ->
           HTTPException(404, NoDataDetail)
      [] reply.content = "badjson" ->
           \* response.json() raises: httpx lets the decode error through,
           \* requests raises a RequestException subclass that is caught
           IF in.variant = "BrapiProvider"
           THEN Uncaught("JSONDecodeError")
           ELSE HTTPException(500, [text |-> "Failed to fetch data from API",
                                    str_e |-> NoStrE])

\* One execution of the body of _make_request for the reply of its GET:
\* the value it returns or the exception that leaves it.
MakeRequestBody(in, reply) ==
    CASE reply.kind = "transport" ->
           HTTPException(500, FailDetail(in, reply))
      [] reply.kind = "status" /\ RaisesForStatus(in.variant, reply.status) ->
           IF reply.status = 404
           THEN HTTPException(404, NoDataDetail)
           ELSE HTTPException(reply.status, FailDetail(in, reply))
      [] OTHER ->
           JsonOutcome(in, reply)

\* Faulty variant of RetryPredicate: every exception is retried.
RetryPredicate_AnyException(outcome) ==
    outcome.kind = "raise"

\* retry_if_exception_type(httpx.RequestError) /
\* retry_if_exception_type(requests.exceptions.RequestException):
\* whether the decorator retries what left the body.
RetryPredicate(outcome) ==
    outcome.kind = "raise" /\ outcome.exc = "RequestError"

RetryError ==
    [kind |-> "raise", exc |-> "RetryError", status |-> 0,
     detail |-> [text |-> "retry error", str_e |-> NoStrE], value |-> NoBody]

NoOut == [kind |-> "none", exc |-> None, status |-> 0,
          detail |-> [text |-> "", str_e |-> NoStrE], value |-> NoBody]

NoIn == [variant |-> None, endpoint |-> None, token |-> None]

RqInit ==
    /\ rq_pc = "idle"
    /\ rq_in = NoIn
    /\ attempt_number = 0
    /\ gets = 0
    /\ read_wait = 0
    /\ replies = <<>>
    /\ waits = <<>>
    /\ rq_out = NoOut

\* A caller invokes the decorated _make_request.
CallMakeRequest(v, e, t) ==
    /\ rq_pc = "idle"
    /\ rq_pc' = "attempt"
    /\ rq_in' = [variant |-> v, endpoint |-> e, token |-> t]
    /\ attempt_number' = 1
    /\ gets' = 0
    /\ read_wait' = 0
    /\ replies' = <<>>
    /\ waits' = <<>>
    /\ rq_out' = NoOut

\* The body starts an attempt: it builds the url, writes the token into the
\* params and issues the GET; the call is then suspended until the upstream
\* replies, and other tasks run meanwhile.
IssueGet ==
    /\ rq_pc = "attempt"
    /\ rq_pc' = "awaiting"
    /\ gets' = gets + 1
    /\ read_wait' = 0
    /\ UNCHANGED <<rq_in, attempt_number, replies, waits, rq_out>>

\* A second passes in which the GET under way receives nothing.
Tick ==
    /\ rq_pc = "awaiting"
    /\ read_wait < Timeout
    /\ read_wait' = read_wait + 1
    /\ UNCHANGED <<rq_pc, rq_in, attempt_number, gets, replies, waits, rq_out>>

\* The upstream sends a part of its reply: the client's wait for data
\* starts again.  The timeout limits each wait, not the GET as a whole.
ReceiveData ==
    /\ rq_pc = "awaiting"
    /\ read_wait < Timeout
    /\ read_wait' = 0
    /\ UNCHANGED <<rq_pc, rq_in, attempt_number, gets, replies, waits, rq_out>>

\* The GET under way ends, with the upstream's whole reply or with a
\* transport failure; once the client has waited for the timeout it ends
\* with a transport failure.  The rest of the body runs, and the decorator
\* decides between finishing, and sleeping and trying again.
Attempt(reply) ==
    /\ rq_pc = "awaiting"
    /\ read_wait = Timeout => reply.kind = "transport"
    /\ read_wait' = 0
    /\ replies' = Append(replies, reply)
    /\ LET outcome == MakeRequestBody(rq_in, reply) IN
         IF RetryPredicate(outcome)
         THEN IF attempt_number >= StopAfterAttempt
              THEN /\ rq_pc' = "done"
                   /\ rq_out' = RetryError
                   /\ UNCHANGED <<attempt_number, waits>>
              ELSE /\ rq_pc' = "attempt"
                   /\ waits' = Append(waits, WaitExponential(attempt_number))
                   /\ attempt_number' = attempt_number + 1
                   /\ UNCHANGED rq_out
         ELSE /\ rq_pc' = "done"
              /\ rq_out' = outcome
              /\ UNCHANGED <<attempt_number, waits>>
    /\ UNCHANGED <<rq_in, gets>>

\* The client has waited for the timeout and ends the GET itself.
ReadTimeout ==
    /\ read_wait = Timeout
    /\ \E reply \in Replies : reply.kind = "transport" /\ Attempt(reply)

\* The caller has its result; the wrapper is ready for the next call.
FinishMakeRequest ==
    /\ rq_pc = "done"
    /\ rq_pc' = "idle"
    /\ rq_in' = NoIn
    /\ attempt_number' = 0
    /\ gets' = 0
    /\ read_wait' = 0
    /\ replies' = <<>>
    /\ waits' = <<>>
    /\ rq_out' = NoOut


(***************************************************************************)
(* Part 2.  YahooProvider.get_market_indicators                            *)
(***************************************************************************)

\* The three sections, in the order the aggregation runs them.
SectionOrder == <<"fundamentals", "market_data", "analyst_info">>
Sections == {SectionOrder[i] : i \in 1..Len(SectionOrder)}

\* A ticker is the sequence of its parts, so that a suffix can be appended
\* and tested: "PETR4" is <<"PETR4">>, "PETR4.SA" is <<"PETR4", ".SA">>.
IndTickers == {<<"PETR4">>, <<"PETR4", ".SA">>, <<"XYZ123">>}

NoTicker == <<>>

\* What yf.Ticker(ticker).info gives to the sub-call of a section: a
\* non-empty mapping, an empty mapping, an exception raised by the lookup,
\* or a non-empty value that is not a mapping (a list, a string).
Fetches == {"mapping", "empty", "raises", "not_mapping"}

NoFetches == [s \in Sections |-> "none"]

\* How an awaited sub-call ends for what its lookup gives.  _get_ticker_info
\* raises HTTPException 404 for an empty info and for every exception of
\* the lookup; the sub-call returns its mapping of info.get values, and
\* info.get raises AttributeError, outside _get_ticker_info, when the info
\* is not a mapping.  No sub-call raises an HTTPException of another status.
SubQueryOutcome(f) ==
    CASE f = "mapping" -> "ok"
      [] f \in {"empty", "raises"} -> "http404"
      [] f = "not_mapping" -> "exception"

SubOutcomes == {SubQueryOutcome(f) : f \in Fetches}
SubFailures == SubOutcomes \ {"ok"}

\* ticker.endswith('.SA')
EndsWithSA(t) == Len(t) > 0 /\ t[Len(t)] = ".SA"

\* Faulty variant of WithSuffix: the suffix is appended to every ticker.
WithSuffix_Always(t) == Append(t, ".SA")

\* Ticker normalisation of _get_ticker_info: the suffix is appended unless
\* the ticker already ends with it.
WithSuffix(t) == IF EndsWithSA(t) THEN t ELSE Append(t, ".SA")

\* The 404 HTTPException of a sub-call (the one _get_ticker_info builds).
NotFoundError(section, ticker) ==
    [status |-> 404, code |-> "ASSET_NOT_FOUND", section |-> section,
     ticker |-> WithSuffix(ticker)]

NoNotFound == [status |-> 0, code |-> None, section |-> None, ticker |-> NoTicker]

NoMeta == [failed_sections |-> <<>>, partial_data |-> FALSE]

NoDetails == [ticker |-> NoTicker, failed_sections |-> <<>>, section |-> None]

UnsetResult == [s \in Sections |-> "unset"]

NoIndOut ==
    [kind |-> "none", status |-> 0, code |-> None, payload |-> UnsetResult,
     has_metadata |-> FALSE, metadata |-> NoMeta, details |-> NoDetails]

\* The outer "except Exception" handler: 500 INTERNAL_ERROR.
InternalError(ticker) ==
    [kind |-> "raise", status |-> 500, code |-> "INTERNAL_ERROR",
     payload |-> UnsetResult, has_metadata |-> FALSE, metadata |-> NoMeta,
     details |-> [ticker |-> ticker, failed_sections |-> <<>>, section |-> None]]

\* The decision taken once the three sub-calls have been tried.
Decide(res, errs, nfe, ticker) ==
    IF Len(errs) = 3 /\ nfe # NoNotFound
    THEN [kind |-> "raise", status |-> nfe.status, code |-> nfe.code,
          payload |-> UnsetResult, has_metadata |-> FALSE, metadata |-> NoMeta,
          details |-> [ticker |-> nfe.ticker, failed_sections |-> <<>>,
                       section |-> nfe.section]]
    ELSE IF Len(errs) = 3
    THEN [kind |-> "raise", status |-> 500, code |-> "INDICATORS_UNAVAILABLE",
          payload |-> UnsetResult, has_metadata |-> FALSE, metadata |-> NoMeta,
          details |-> [ticker |-> ticker, failed_sections |-> errs,
                       section |-> None]]
    ELSE [kind |-> "return", status |-> 200, code |-> None,
          payload |-> res,
          has_metadata |-> (errs # <<>>),
          metadata |-> IF errs # <<>>
                       THEN [failed_sections |-> errs, partial_data |-> TRUE]
                       ELSE NoMeta,
          details |-> NoDetails]

SectionIndex(s) == CHOOSE i \in 1..Len(SectionOrder) : SectionOrder[i] = s

IndInit ==
    /\ ind_pc = "idle"
    /\ ind_ticker = NoTicker
    /\ ind_in = NoFetches
    /\ result = UnsetResult
    /\ errors = <<>>
    /\ not_found_error = NoNotFound
    /\ executed = [s \in Sections |-> 0]
    /\ observed = [s \in Sections |-> "notrun"]
    /\ ind_out = NoIndOut

\* get_market_indicators(ticker) is entered, against an upstream whose
\* info lookups give fetches[section] to the sub-call of each section.
StartIndicators(t, fetches) ==
    /\ ind_pc = "idle"
    /\ ind_pc' = SectionOrder[1]
    /\ ind_ticker' = t
    /\ ind_in' = fetches
    /\ result' = UnsetResult
    /\ errors' = <<>>
    /\ not_found_error' = NoNotFound
    /\ executed' = [s \in Sections |-> 0]
    /\ observed' = [s \in Sections |-> "notrun"]
    /\ ind_out' = NoIndOut

\* The sub-call of the current section is awaited and ends as its lookup
\* makes it end; after the last section the aggregate decision is taken.
SubCall ==
    /\ ind_pc \in Sections
    /\ LET s == ind_pc
           o == SubQueryOutcome(ind_in[s])
           i == SectionIndex(s)
           last == (i = Len(SectionOrder))
           res1 == [result EXCEPT ![s] = IF o = "ok" THEN "data" ELSE "null"]
           errs1 == IF o = "ok" THEN errors ELSE Append(errors, s)
           nfe1 == IF o = "http404" THEN NotFoundError(s, ind_ticker)
                   ELSE not_found_error
       IN
         /\ executed' = [executed EXCEPT ![s] = @ + 1]
         /\ observed' = [observed EXCEPT ![s] = o]
         /\ IF o = "exception"
            THEN \* not an HTTPException: leaves the inner try, caught by the
                 \* outer handler
                 /\ ind_out' = InternalError(ind_ticker)
                 /\ ind_pc' = "done"
                 /\ UNCHANGED <<result, errors, not_found_error>>
            ELSE /\ result' = res1
                 /\ errors' = errs1
                 /\ not_found_error' = nfe1
                 /\ IF last
                    THEN /\ ind_out' = Decide(res1, errs1, nfe1, ind_ticker)
                         /\ ind_pc' = "done"
                    ELSE /\ ind_out' = ind_out
                         /\ ind_pc' = SectionOrder[i + 1]
    /\ UNCHANGED <<ind_ticker, ind_in>>

\* The caller has the result.
FinishIndicators ==
    /\ ind_pc = "done"
    /\ ind_pc' = "idle"
    /\ ind_ticker' = NoTicker
    /\ ind_in' = NoFetches
    /\ result' = UnsetResult
    /\ errors' = <<>>
    /\ not_found_error' = NoNotFound
    /\ executed' = [s \in Sections |-> 0]
    /\ observed' = [s \in Sections |-> "notrun"]
    /\ ind_out' = NoIndOut

(***************************************************************************)
(* Part 3.  ProviderManager                                                *)
(***************************************************************************)

\* Provider instances constructed in one behaviour.
MaxInstances == 2

Classes == {"BrapiProvider", "YahooProvider"}

\* Names used in register_provider calls, and names asked for.
RegNames == {"brapi", "test_provider"}
Names == RegNames \cup {"yahoo", "invalid_provider"}

\* Route names passed to get_provider and set_default_provider_for_route.
Routes == {"get_available_assets", "get_historical_prices", "get_market_indicators"}

\* The name get_provider falls back to for a route without an entry.
FallbackName == "brapi"

\* ProviderManager.__init__
InitProviders ==
    [n \in Names |-> CASE n = "brapi" -> "BrapiProvider"
                       [] n = "yahoo" -> "YahooProvider"
                       [] OTHER -> None]

InitDefaults ==
    [rt \in Routes |-> CASE rt = "get_available_assets" -> "brapi"
                         [] rt = "get_historical_prices" -> "yahoo"
                         [] OTHER -> None]

\* "provider_name in self._providers"; None is never a key.
Registered(provs, n) == n \in DOMAIN provs /\ provs[n] # None

\* self._default_providers.get(route_name, 'brapi')
DefaultFor(defs, rt) ==
    IF rt \in DOMAIN defs /\ defs[rt] # None THEN defs[rt] ELSE FallbackName

\* Faulty variant of ResolveName: the route's default wins over the explicit name.
ResolveName_RouteFirst(defs, pname, rname) ==
    IF rname # None THEN DefaultFor(defs, rname) ELSE pname

\* The provider name get_provider looks up: the explicit name when given,
\* else the default of the route when a route is given, else None.
ResolveName(defs, pname, rname) ==
    IF pname = None /\ rname # None THEN DefaultFor(defs, rname) ELSE pname

IdleReq == [pc |-> "idle", pname |-> None, rname |-> None, inst |-> 0, exc |-> None]

NoAdmin == [op |-> None, raised |-> FALSE]

MgrInit ==
    /\ providers = InitProviders
    /\ default_providers = InitDefaults
    /\ req = IdleReq
    /\ instances = <<>>
    /\ mgr_last = NoAdmin

\* Faulty variant of RegisterProvider: a name already registered keeps its
\* class (dict.setdefault in place of the assignment).
RegisterProvider_KeepFirst(n, c) ==
    /\ providers' = IF Registered(providers, n) THEN providers
                    ELSE [providers EXCEPT ![n] = c]
    /\ mgr_last' = [op |-> "register_provider", raised |-> FALSE]
    /\ UNCHANGED <<default_providers, req, instances>>

\* register_provider(name, provider_class)
RegisterProvider(n, c) ==
    /\ providers' = [providers EXCEPT ![n] = c]
    /\ mgr_last' = [op |-> "register_provider", raised |-> FALSE]
    /\ UNCHANGED <<default_providers, req, instances>>

\* Faulty variant of SetDefaultProviderForRoute: the entry is assigned without the
\* registration check.
SetDefault_Unchecked(rt, n) ==
    /\ default_providers' = [default_providers EXCEPT ![rt] = n]
    /\ mgr_last' = [op |-> "set_default_provider_for_route", raised |-> FALSE]
    /\ UNCHANGED <<providers, req, instances>>

\* set_default_provider_for_route(route_name, provider_name)
SetDefaultProviderForRoute(rt, n) ==
    /\ IF ~Registered(providers, n)
       THEN /\ mgr_last' = [op |-> "set_default_provider_for_route", raised |-> TRUE]
            /\ UNCHANGED default_providers
       ELSE /\ default_providers' = [default_providers EXCEPT ![rt] = n]
            /\ mgr_last' = [op |-> "set_default_provider_for_route", raised |-> FALSE]
    /\ UNCHANGED <<providers, req, instances>>

\* Entry of get_provider up to its first await: the name is resolved and
\* looked up, and the class is instantiated; an unregistered name raises
\* ValueError before anything is constructed.
GetProvider(pname, rname) ==
    /\ req.pc = "idle"
    /\ LET n == ResolveName(default_providers, pname, rname) IN
         IF ~Registered(providers, n)
         THEN /\ req' = [pc |-> "done", pname |-> pname, rname |-> rname,
                         inst |-> 0, exc |-> "ValueError"]
              /\ UNCHANGED instances
         ELSE /\ Len(instances) < MaxInstances
              /\ instances' = Append(instances,
                                     [cls |-> providers[n], name |-> n, exits |-> 0])
              /\ req' = [pc |-> "entering", pname |-> pname, rname |-> rname,
                         inst |-> Len(instances) + 1, exc |-> None]
    /\ UNCHANGED <<providers, default_providers, mgr_last>>

\* "await provider.__aenter__()": it returns and the provider is yielded to
\* the block, or it raises and the finally clause takes over.
Enter(ok) ==
    /\ req.pc = "entering"
    /\ IF ok
       THEN req' = [req EXCEPT !.pc = "in_block"]
       ELSE req' = [req EXCEPT !.pc = "exiting", !.exc = "EnterError"]
    /\ UNCHANGED <<providers, default_providers, instances, mgr_last>>

\* Faulty variant of BlockEnds: no finally clause, so an exception of the block
\* leaves get_provider without running __aexit__.
BlockEnds_NoFinally(raised) ==
    /\ req.pc = "in_block"
    /\ IF raised
       THEN req' = [req EXCEPT !.pc = "done", !.exc = "BlockError"]
       ELSE req' = [req EXCEPT !.pc = "exiting"]
    /\ UNCHANGED <<providers, default_providers, instances, mgr_last>>

\* The wrapped block ends, normally or with an exception thrown into the
\* generator at the yield; the finally clause runs in both cases.
BlockEnds(raised) ==
    /\ req.pc = "in_block"
    /\ req' = [req EXCEPT !.pc = "exiting",
                          !.exc = IF raised THEN "BlockError" ELSE None]
    /\ UNCHANGED <<providers, default_providers, instances, mgr_last>>

\* finally: "await provider.__aexit__(None, None, None)"
Exit ==
    /\ req.pc = "exiting"
    /\ instances' = [instances EXCEPT ![req.inst].exits = @ + 1]
    /\ req' = [req EXCEPT !.pc = "done"]
    /\ UNCHANGED <<providers, default_providers, mgr_last>>

\* The request is over: nothing refers to its instance any more.
EndRequest ==
    /\ req.pc = "done"
    /\ req' = IdleReq
    /\ instances' = IF req.inst = 0 THEN instances
                    ELSE [instances EXCEPT ![req.inst].cls = None,
                                           ![req.inst].name = None]
    /\ UNCHANGED <<providers, default_providers, mgr_last>>

(***************************************************************************)
(* Part 4.  Route handlers and the response envelope                       *)
(***************************************************************************)

\* Paths the application serves.
GatewayEndpoints == {"/", "/providers", "/market/assets", "/market/prices"}

MarketEndpoints == {"/market/assets", "/market/prices"}

\* Values of a 'provider' query parameter sent with a request (None: not
\* sent).  No handler declares such a parameter.
ProviderParams == {None, "brapi", "invalid_provider"}

\* What the Yahoo Finance lookups of get_historical_prices come back with.
YahooOutcomes == {"ok", "not_found", "no_data", "internal"}

\* Attributes a ProviderManager instance has.
ManagerAttributes == {"_providers", "_default_providers"}

\* The route_name each market route passes to get_provider.
RouteNameOf(ep) ==
    IF ep = "/market/assets" THEN "get_available_assets" ELSE "get_historical_prices"

\* The value of "provider" each market route writes into its metadata.
MetadataProvider(ep) ==
    IF ep = "/market/assets" THEN "brapi" ELSE "yahoo"

\* What a provider operation ends with, as far as a route can tell: a
\* return, or an exception with, for an HTTPException, its status_code, the
\* type of its detail and the code in a mapping detail.
OpReturn ==
    [kind |-> "return", exc |-> None, status |-> 0, detail_type |-> None, code |-> None]

OpRaise(exc, status, detail_type, code) ==
    [kind |-> "raise", exc |-> exc, status |-> status,
     detail_type |-> detail_type, code |-> code]

NoOp == [kind |-> "none", exc |-> None, status |-> 0, detail_type |-> None, code |-> None]

\* An outcome of _make_request seen from the route: the details the wrapper
\* raises are strings.
OfMakeRequest(outcome) ==
    IF outcome.kind = "return" THEN OpReturn
    ELSE OpRaise(outcome.exc, outcome.status,
                 IF outcome.exc = "HTTPException" THEN "str" ELSE None, None)

\* BrapiProvider.get_available_assets / get_historical_prices for the
\* reply of the upstream GET.
BrapiOp(ep, t, reply) ==
    LET in == [variant |-> "BrapiProvider",
               endpoint |-> IF ep = "/market/assets" THEN "available" ELSE "quote/PETR4",
               token |-> t]
        outcome == MakeRequestBody(in, reply) IN
    IF outcome.kind # "return" THEN OfMakeRequest(outcome)
    ELSE IF ep = "/market/assets"
    THEN \* data.get('indexes', []): only a mapping has get
         IF outcome.value.json = "object" THEN OpReturn
         ELSE OpRaise("AttributeError", 0, None, None)
    ELSE \* 'results' not in data or not data['results']: a number does not
         \* support 'in'.  An entry whose parsing raises ValueError or
         \* KeyError is skipped; another exception of
         \* _convert_unix_to_datetime leaves the operation.
         CASE outcome.value.json = "number" -> OpRaise("TypeError", 0, None, None)
           [] outcome.value.json = "object" /\ outcome.value.results = "list" ->
                IF /\ outcome.value.has_prices
                   /\ FromTimestampRaises(outcome.value.date) \in {"OSError", "OverflowError"}
                THEN OpRaise(FromTimestampRaises(outcome.value.date), 0, None, None)
                ELSE OpReturn
           [] OTHER -> OpRaise("HTTPException", 404, "str", None)

\* YahooProvider.get_historical_prices, and get_available_assets, which
\* YahooProvider inherits from the base class as a plain function: awaiting
\* the AssetList it returns raises TypeError.
YahooOp(ep, y) ==
    IF ep = "/market/assets"
    THEN OpRaise("TypeError", 0, None, None)
    ELSE CASE y = "ok" -> OpReturn
           [] y = "not_found" -> OpRaise("HTTPException", 404, "dict", "ASSET_NOT_FOUND")
           [] y = "no_data" -> OpRaise("HTTPException", 404, "dict", "NO_DATA_AVAILABLE")
           [] y = "internal" -> OpRaise("HTTPException", 500, "dict", "INTERNAL_ERROR")

\* APIResponse.data and APIResponse.error and what they hold.
NoData ==
    [set |-> FALSE, timestamp |-> FALSE, content |-> FALSE, provider |-> None,
     available_providers |-> {}, default_provider |-> None]

NoError == [set |-> FALSE, code |-> None, timestamp |-> FALSE, status_code |-> 0]

APIResponse(success, data, error) ==
    [success |-> success, data |-> data, error |-> error]

\* ResponseUtil.success(data, message, metadata)
ResponseUtilSuccess(has_content, provider) ==
    APIResponse(TRUE,
                [set |-> TRUE, timestamp |-> TRUE, content |-> has_content,
                 provider |-> provider, available_providers |-> {},
                 default_provider |-> None],
                NoError)

\* Faulty variant of ResponseUtilError: the error is returned next to an
\* empty data mapping.
ResponseUtilError_WithData(code, status_code) ==
    APIResponse(FALSE,
                [NoData EXCEPT !.set = TRUE],
                [set |-> TRUE, code |-> code, timestamp |-> TRUE,
                 status_code |-> status_code])

\* ResponseUtil.error(code, message, details, status_code)
ResponseUtilError(code, status_code) ==
    APIResponse(FALSE, NoData,
                [set |-> TRUE, code |-> code, timestamp |-> TRUE,
                 status_code |-> status_code])

\* What the client receives: the JSON of an APIResponse with a status, or
\* the server's bare 500 for an exception that left the handler.
NoEnvelope == APIResponse(FALSE, NoData, NoError)

JSONResponse(status, content) ==
    [kind |-> "envelope", http_status |-> status, content |-> content, raised |-> None]

Unhandled(exc) ==
    [kind |-> "unhandled", http_status |-> 500, content |-> NoEnvelope, raised |-> exc]

NoResp == [kind |-> "none", http_status |-> 0, content |-> NoEnvelope, raised |-> None]

\* The except clauses of a market route for what left its try block.
RouteExcept(op) ==
    IF op.exc = "HTTPException"
    THEN IF op.detail_type = "dict"
         THEN JSONResponse(op.status,
                           ResponseUtilError(IF op.code # None THEN op.code
                                             ELSE "PROVIDER_ERROR", op.status))
         ELSE \* e.detail.get on a str, inside the handler
              Unhandled("AttributeError")
    ELSE JSONResponse(500, ResponseUtilError("INTERNAL_ERROR", 500))

\* get_available_assets / get_historical_prices of market_routes: the
\* response for what the get_provider block ended with.
MarketRoute(ep, op) ==
    IF op.kind = "return"
    THEN JSONResponse(200, ResponseUtilSuccess(TRUE, MetadataProvider(ep)))
    ELSE RouteExcept(op)

\* read_root
ReadRoot ==
    JSONResponse(200, APIResponse(TRUE, [NoData EXCEPT !.set = TRUE], NoError))

\* list_providers
ListProviders(provs) ==
    IF "_default_provider" \notin ManagerAttributes
    THEN Unhandled("AttributeError")
    ELSE JSONResponse(200,
             APIResponse(TRUE,
                 [NoData EXCEPT !.set = TRUE,
                                !.available_providers = {n \in Names : Registered(provs, n)},
                                !.default_provider = None],
                 NoError))

NoRtIn == [endpoint |-> None, provider |-> None]

\* The provider a handler holds: its registered name, its class and the
\* token the instance read when it was constructed.
NoHeld == [name |-> None, cls |-> None, token |-> None]

RtInit ==
    /\ rt_pc = "idle"
    /\ rt_in = NoRtIn
    /\ rt_held = NoHeld
    /\ rt_op = NoOp
    /\ rt_resp = NoResp

\* A request to a market route arrives and its handler runs up to the point
\* where it gives control back: get_provider resolves the name against the
\* registry as it is now and constructs the provider.  An unregistered name
\* is answered at once.  A YahooProvider awaits nothing that suspends, so
\* its operation and the response follow in the same step.  A BrapiProvider
\* issues its GET and the handler is suspended until the upstream replies.
HandleMarket(ep, p, t, y) ==
    /\ rt_pc = "idle"
    /\ rt_in' = [endpoint |-> ep, provider |-> p]
    /\ LET n == ResolveName(default_providers, None, RouteNameOf(ep)) IN
         IF ~Registered(providers, n)
         THEN /\ rt_pc' = "done"
              /\ rt_held' = NoHeld
              /\ rt_op' = OpRaise("ValueError", 0, None, None)
              /\ rt_resp' = MarketRoute(ep, OpRaise("ValueError", 0, None, None))
         ELSE IF providers[n] = "BrapiProvider"
         THEN /\ rt_pc' = "awaiting_get"
              /\ rt_held' = [name |-> n, cls |-> providers[n], token |-> t]
              /\ rt_op' = NoOp
              /\ rt_resp' = NoResp
         ELSE /\ rt_pc' = "done"
              /\ rt_held' = [name |-> n, cls |-> providers[n], token |-> None]
              /\ rt_op' = YahooOp(ep, y)
              /\ rt_resp' = MarketRoute(ep, YahooOp(ep, y))

\* The upstream replies to the GET of the BrapiProvider the handler holds:
\* the operation ends, and the exit of the get_provider block closes the
\* provider's client, where the handler is suspended once more.
UpstreamReplies(reply) ==
    /\ rt_pc = "awaiting_get"
    /\ rt_pc' = "closing"
    /\ rt_op' = BrapiOp(rt_in.endpoint, rt_held.token, reply)
    /\ UNCHANGED <<rt_in, rt_held, rt_resp>>

\* The client is closed and the handler produces its response.
ProviderClosed ==
    /\ rt_pc = "closing"
    /\ rt_pc' = "done"
    /\ rt_resp' = MarketRoute(rt_in.endpoint, rt_op)
    /\ UNCHANGED <<rt_in, rt_held, rt_op>>

\* One request to / or /providers; these handlers await nothing.
HandleMain(ep, p) ==
    /\ rt_pc = "idle"
    /\ rt_pc' = "done"
    /\ rt_in' = [endpoint |-> ep, provider |-> p]
    /\ rt_held' = NoHeld
    /\ rt_op' = NoOp
    /\ rt_resp' = IF ep = "/" THEN ReadRoot ELSE ListProviders(providers)

\* The response has been sent.
EndHandle ==
    /\ rt_pc = "done"
    /\ rt_pc' = "idle"
    /\ rt_in' = NoRtIn
    /\ rt_held' = NoHeld
    /\ rt_op' = NoOp
    /\ rt_resp' = NoResp


(***************************************************************************)
(* Part 5.  YahooProvider lookups                                          *)
(***************************************************************************)

\* Tickers asked for; ".sa" is a suffix in the wrong case.
YahooTickers == IndTickers \cup {<<"PETR4", ".sa">>, <<"XYZ123", ".SA">>}

\* yf.Ticker(ticker).info: the lookup raises because the ticker is unknown
\* ("raises"), raises for another reason such as a transport failure
\* ("transport"), or gives an empty mapping, a mapping whose
\* 'regularMarketPrice' is missing, None or 0 ("no_price"), or a mapping
\* whose 'regularMarketPrice' is a number other than 0 ("full").
InfoKinds == {"raises", "transport", "empty", "no_price", "full"}

\* The fields of an info mapping that the lookups are drawn over; every
\* other field is absent from the mappings.
InfoFields ==
    {"forwardPE", "priceToBook", "marketCap", "regularMarketPrice",
     "targetMeanPrice", "recommendationKey"}

\* The kind of an info mapping with the given fields present, of which
\* those in zero have the value 0 (line 82: "not info or not
\* info.get('regularMarketPrice')": a price of 0 counts as no price).
InfoKindOf(fields, zero) ==
    IF fields = {} THEN "empty"
    ELSE IF "regularMarketPrice" \notin fields \/ "regularMarketPrice" \in zero
    THEN "no_price"
    ELSE "full"

\* What yf.Ticker(ticker).info can do for a sub-query: raise, or give a
\* mapping with some of the fields, the market price being 0 in some.
InfoLookups ==
    {[kind |-> k, fields |-> {}, zero |-> {}] : k \in {"raises", "transport"}}
    \cup UNION {{[kind |-> InfoKindOf(F, Z), fields |-> F, zero |-> Z] :
                     Z \in {Y \in {{}, {"regularMarketPrice"}} : Y \subseteq F}} :
                F \in SUBSET InfoFields}

\* range_map of _convert_yahoo_range.
range_map ==
    "1d" :> "1d" @@ "5d" :> "5d" @@ "1mo" :> "1mo" @@ "3mo" :> "3mo"
    @@ "6mo" :> "6mo" @@ "1y" :> "1y" @@ "2y" :> "2y" @@ "5y" :> "5y"
    @@ "10y" :> "10y" @@ "ytd" :> "ytd" @@ "max" :> "max"

\* interval_map of _convert_yahoo_interval.
interval_map ==
    "1m" :> "1m" @@ "5m" :> "5m" @@ "15m" :> "15m" @@ "30m" :> "30m"
    @@ "1h" :> "1h" @@ "1d" :> "1d" @@ "1wk" :> "1wk" @@ "1mo" :> "1mo"

\* dict.get(key, default)
DictGet(map, key, default) ==
    IF key \in DOMAIN map THEN map[key] ELSE default

\* Range tokens a request can carry: the tokens of both maps, a token in
\* the wrong case, an unknown token and the empty string.
RangeTokens == DOMAIN range_map \cup DOMAIN interval_map \cup {"1D", "7d", ""}

\* Interval tokens a request can carry: the same, and an absent interval.
IntervalTokens == RangeTokens \cup {None}

\* Faulty variant of _convert_yahoo_range: the token is passed on as it is.
ConvertYahooRange_PassOn(range) == range

\* _convert_yahoo_range(range)
ConvertYahooRange(range) == DictGet(range_map, range, "1d")

\* _convert_yahoo_interval(interval)
ConvertYahooInterval(interval) ==
    IF interval \in {None, ""} THEN "1d"
    ELSE DictGet(interval_map, interval, "1d")

\* Rows of a history frame, in the order of the frame: the position in time
\* and the volume.
Rows == {[at |-> a, volume |-> v] : a \in 1..2, v \in {0, 7}}

\* yf_ticker.history(...): the lookup raises, or gives an empty frame, a
\* frame with a row that cannot be converted (NaN volume), or a frame of
\* rows.
Histories ==
    {[kind |-> k, rows |-> <<>>] : k \in {"raises", "empty", "bad_row"}}
    \cup {[kind |-> "rows", rows |-> <<r>>] : r \in Rows}
    \cup {[kind |-> "rows", rows |-> <<r1, r2>>] :
              r1 \in {r \in Rows : r.at = 1}, r2 \in {r \in Rows : r.at = 2}}

NoHistory == [kind |-> None, rows |-> <<>>]

\* What get_historical_prices returns or raises.
NoPrices ==
    [kind |-> "none", status |-> 0, code |-> None, details_ticker |-> NoTicker,
     details_period |-> FALSE, symbol |-> NoTicker, prices |-> <<>>]

\* HTTPException(404, APIError(ASSET_NOT_FOUND, details={"ticker": ticker}))
AssetNotFound(ticker) ==
    [kind |-> "raise", status |-> 404, code |-> "ASSET_NOT_FOUND",
     details_ticker |-> ticker, details_period |-> FALSE,
     symbol |-> NoTicker, prices |-> <<>>]

\* Faulty variant of NoDataAvailable: the details lack the ticker.
NoDataAvailable_NoTicker(ticker) ==
    [kind |-> "raise", status |-> 404, code |-> "NO_DATA_AVAILABLE",
     details_ticker |-> NoTicker, details_period |-> TRUE,
     symbol |-> NoTicker, prices |-> <<>>]

\* HTTPException(404, APIError(NO_DATA_AVAILABLE,
\*               details={"ticker": ticker, "period": ..., "interval": ...}))
NoDataAvailable(ticker) ==
    [kind |-> "raise", status |-> 404, code |-> "NO_DATA_AVAILABLE",
     details_ticker |-> ticker, details_period |-> TRUE,
     symbol |-> NoTicker, prices |-> <<>>]

\* The outer "except Exception" of get_historical_prices.
PricesInternalError(ticker) ==
    [kind |-> "raise", status |-> 500, code |-> "INTERNAL_ERROR",
     details_ticker |-> ticker, details_period |-> FALSE,
     symbol |-> NoTicker, prices |-> <<>>]

\* YahooProvider.get_historical_prices(ticker, time_range)
YahooHistoricalPrices(ticker, info, hist) ==
    LET t == WithSuffix(ticker) IN
    CASE info \in {"raises", "transport"} -> AssetNotFound(t)
      [] info \in {"empty", "no_price"} -> AssetNotFound(t)
      [] info = "full" /\ hist.kind = "raises" -> AssetNotFound(t)
      [] info = "full" /\ hist.kind = "empty" -> NoDataAvailable(t)
      [] info = "full" /\ hist.kind = "bad_row" -> PricesInternalError(t)
      [] OTHER ->
           [kind |-> "return", status |-> 200, code |-> None,
            details_ticker |-> NoTicker, details_period |-> FALSE,
            symbol |-> t,
            prices |-> [i \in 1..Len(hist.rows) |-> hist.rows[i]]]

\* _get_ticker_info(ticker) as a sub-call of the indicators sees it: every
\* failure of the lookup, and an empty info, is a 404; any non-empty info
\* is returned.
TickerInfo(info) ==
    IF info \in {"raises", "transport", "empty"} THEN "http404" ELSE "ok"

\* The mapping each sub-query builds: its keys and the info field each key
\* is read from.
FundamentalKeys ==
    [pe_ratio |-> "forwardPE", pb_ratio |-> "priceToBook",
     dividend_yield |-> "dividendYield", roe |-> "returnOnEquity",
     ebitda_margins |-> "ebitdaMargins", debt_to_equity |-> "debtToEquity",
     gross_margins |-> "grossMargins", profit_margins |-> "profitMargins"]

MarketDataKeys ==
    [market_cap |-> "marketCap", average_volume |-> "averageVolume",
     beta |-> "beta", fifty_two_week_high |-> "fiftyTwoWeekHigh",
     fifty_two_week_low |-> "fiftyTwoWeekLow", short_ratio |-> "shortRatio",
     regular_market_price |-> "regularMarketPrice",
     regular_market_volume |-> "regularMarketVolume"]

AnalystInfoKeys ==
    [target_mean_price |-> "targetMeanPrice",
     recommendation |-> "recommendationKey",
     number_of_analysts |-> "numberOfAnalystOpinions",
     earnings_growth |-> "earningsGrowth", revenue_growth |-> "revenueGrowth",
     recommendation_mean |-> "recommendationMean"]

KeysOf(section) ==
    CASE section = "fundamentals" -> FundamentalKeys
      [] section = "market_data" -> MarketDataKeys
      [] section = "analyst_info" -> AnalystInfoKeys

\* Faulty variant of InfoGet: info[field], which fails on a missing field.
InfoGet_Subscript(fields, field) ==
    IF field \in fields THEN field ELSE "KeyError"

\* info.get(field): the value of the field, named after it, or None.
InfoGet(fields, field) ==
    IF field \in fields THEN field ELSE None

NoSub ==
    [kind |-> "none", status |-> 0, code |-> None, fetches |-> 0,
     mapping |-> <<>>]

\* get_fundamental_indicators, get_market_data and get_analyst_info: one
\* call of _get_ticker_info, then the mapping built with info.get.
SubQuery(section, lookup) ==
    IF TickerInfo(lookup.kind) = "ok"
    THEN [kind |-> "return", status |-> 200, code |-> None, fetches |-> 1,
          mapping |-> [k \in DOMAIN KeysOf(section) |->
                          InfoGet(lookup.fields, KeysOf(section)[k])]]
    ELSE [kind |-> "raise", status |-> 404, code |-> "ASSET_NOT_FOUND",
          fetches |-> 1, mapping |-> <<>>]

\* get_market_indicators(ticker) when its three sub-calls see the same info.
YahooMarketIndicators(ticker, info) ==
    IF TickerInfo(info) = "ok"
    THEN Decide([s \in Sections |-> "data"], <<>>, NoNotFound, ticker)
    ELSE Decide([s \in Sections |-> "null"], SectionOrder,
                NotFoundError(SectionOrder[Len(SectionOrder)], ticker), ticker)

YahooOps == {"get_historical_prices", "get_market_indicators"} \cup Sections

NoYhIn == [op |-> None, ticker |-> NoTicker, range |-> None, interval |-> None]

\* The info and history lookups, the fields of the info, and the period
\* and interval the history lookup was asked for.
NoYhUp ==
    [info |-> None, hist |-> NoHistory, fields |-> {}, zero |-> {},
     period |-> None, interval |-> None]

YhInit ==
    /\ yh_pc = "idle"
    /\ yh_in = NoYhIn
    /\ yh_up = NoYhUp
    /\ yh_out = NoPrices
    /\ yh_ind = NoIndOut
    /\ yh_sub = NoSub

\* One call of get_historical_prices against the given upstream; the
\* history lookup is reached, with the converted period and interval, when
\* the info has a market price.
CallHistoricalPrices(ticker, info, hist, range, interval) ==
    /\ yh_pc = "idle"
    /\ yh_pc' = "done"
    /\ yh_in' = [op |-> "get_historical_prices", ticker |-> ticker,
                 range |-> range, interval |-> interval]
    /\ yh_up' = [info |-> info, hist |-> hist, fields |-> {}, zero |-> {},
                 period |-> IF info = "full"
                            THEN ConvertYahooRange(range) ELSE None,
                 interval |-> IF info = "full"
                              THEN ConvertYahooInterval(interval) ELSE None]
    /\ yh_out' = YahooHistoricalPrices(ticker, info, hist)
    /\ yh_ind' = NoIndOut
    /\ yh_sub' = NoSub

\* One call of get_market_indicators against the given upstream.
CallMarketIndicators(ticker, info) ==
    /\ yh_pc = "idle"
    /\ yh_pc' = "done"
    /\ yh_in' = [op |-> "get_market_indicators", ticker |-> ticker,
                 range |-> None, interval |-> None]
    /\ yh_up' = [info |-> info, hist |-> NoHistory, fields |-> {}, zero |-> {},
                 period |-> None, interval |-> None]
    /\ yh_out' = NoPrices
    /\ yh_ind' = YahooMarketIndicators(ticker, info)
    /\ yh_sub' = NoSub

\* One call of an indicator sub-query against the given info lookup.
CallSubQuery(section, ticker, lookup) ==
    /\ yh_pc = "idle"
    /\ yh_pc' = "done"
    /\ yh_in' = [op |-> section, ticker |-> ticker,
                 range |-> None, interval |-> None]
    /\ yh_up' = [info |-> lookup.kind, hist |-> NoHistory,
                 fields |-> lookup.fields, zero |-> lookup.zero,
                 period |-> None, interval |-> None]
    /\ yh_out' = NoPrices
    /\ yh_ind' = NoIndOut
    /\ yh_sub' = SubQuery(section, lookup)

\* The caller has its result.
FinishYahoo ==
    /\ yh_pc = "done"
    /\ yh_pc' = "idle"
    /\ yh_in' = NoYhIn
    /\ yh_up' = NoYhUp
    /\ yh_out' = NoPrices
    /\ yh_ind' = NoIndOut
    /\ yh_sub' = NoSub

(***************************************************************************)
(* Part 6.  BrapiProvider.get_historical_prices                            *)
(***************************************************************************)

\* Entries of historicalDataPrice in one reply.
MaxEntries == 2

\* How the 'date' of an entry comes: a UNIX number, an ISO 8601 string, no
\* 'date' key, a string that is no ISO date, null, a list, or a number of
\* one of the three ranges datetime.fromtimestamp rejects.
DateKinds ==
    {"unix", "iso", "missing", "bad_string", "null", "list",
     "unix_beyond_year", "unix_beyond_gmtime", "unix_beyond_time_t"}

\* How a numeric field of an entry comes: a number, no such key, a string
\* that is no number, or null.
NumberKinds == {"number", "missing", "text", "null"}

WellFormed == [date |-> "unix", open |-> "number", volume |-> "number", value |-> 7]

\* The entries a reply is made of: well-formed ones, and ones with one
\* field out of order.  value is the volume a numeric volume field holds.
Entries ==
    {[WellFormed EXCEPT !.date = "iso", !.value = 0]}
    \cup {[WellFormed EXCEPT !.date = k] : k \in DateKinds}
    \cup {[WellFormed EXCEPT !.open = k] : k \in NumberKinds}
    \cup {[WellFormed EXCEPT !.volume = k] : k \in NumberKinds}

\* Sequences of at most n entries.
RECURSIVE EntrySeqs(_)
EntrySeqs(n) ==
    IF n = 0 THEN {<<>>}
    ELSE LET shorter == EntrySeqs(n - 1) IN
         shorter \cup {Append(q, e) : q \in {x \in shorter : Len(x) = n - 1},
                                      e \in Entries}

\* The data of a quote: whether it has a non-empty 'results', whether
\* results[0] has 'historicalDataPrice', and the entries of that list.
QuoteData ==
    {[has_results |-> FALSE, has_history |-> FALSE, entries |-> <<>>],
     [has_results |-> TRUE, has_history |-> FALSE, entries |-> <<>>]}
    \cup {[has_results |-> TRUE, has_history |-> TRUE, entries |-> q] :
              q \in EntrySeqs(MaxEntries)}

NoQuoteData == [has_results |-> FALSE, has_history |-> FALSE, entries |-> <<>>]

\* _convert_unix_to_datetime(price_data['date']): a datetime, or the
\* exception the expression raises.
ConvertDateField(k) ==
    CASE k \in {"unix", "iso"} -> "ok"
      [] k = "missing" -> "KeyError"
      [] k = "bad_string" -> "ValueError"
      [] k \in {"null", "list"} -> "AttributeError"
      [] OTHER -> FromTimestampRaises([repr |-> k])

\* float(price_data.get(field, 0)) / int(price_data.get(field, 0))
ConvertNumberField(k) ==
    CASE k \in {"number", "missing"} -> "ok"
      [] k = "text" -> "ValueError"
      [] k = "null" -> "TypeError"

\* The body of the try of one entry: the date is converted first, then the
\* numeric fields in the order of the PricePoint arguments.
ParseEntry(e) ==
    IF ConvertDateField(e.date) # "ok" THEN ConvertDateField(e.date)
    ELSE IF ConvertNumberField(e.open) # "ok" THEN ConvertNumberField(e.open)
    ELSE ConvertNumberField(e.volume)

\* except (ValueError, KeyError)
Caught(exc) == exc \in {"ValueError", "KeyError"}

\* The PricePoint of a parsed entry: its position in the reply and its
\* volume (0 when the key is missing).
PricePoint(i, e) ==
    [index |-> i, volume |-> IF e.volume = "missing" THEN 0 ELSE e.value]

\* The loop over historicalDataPrice from entry i on, with the points
\* collected so far: the list of points, or the exception that ends it.
RECURSIVE ParseFrom(_, _, _)
ParseFrom(entries, i, prices) ==
    IF i > Len(entries) THEN [exc |-> None, prices |-> prices]
    ELSE LET r == ParseEntry(entries[i]) IN
         IF r = "ok"
         THEN ParseFrom(entries, i + 1, Append(prices, PricePoint(i, entries[i])))
         ELSE IF Caught(r) THEN ParseFrom(entries, i + 1, prices)
         ELSE [exc |-> r, prices |-> <<>>]

NoHpOut == [kind |-> "none", exc |-> None, status |-> 0, prices |-> <<>>]

\* BrapiProvider.get_historical_prices from the data of _make_request on.
BrapiHistoricalPrices(data) ==
    IF ~data.has_results
    THEN [kind |-> "raise", exc |-> "HTTPException", status |-> 404, prices |-> <<>>]
    ELSE LET r == IF data.has_history THEN ParseFrom(data.entries, 1, <<>>)
                  ELSE [exc |-> None, prices |-> <<>>] IN
         IF r.exc # None
         THEN [kind |-> "raise", exc |-> r.exc, status |-> 0, prices |-> <<>>]
         ELSE [kind |-> "return", exc |-> None, status |-> 200, prices |-> r.prices]

HpInit ==
    /\ hp_pc = "idle"
    /\ hp_data = NoQuoteData
    /\ hp_out = NoHpOut

\* One call of get_historical_prices whose _make_request returned data.
CallBrapiPrices(data) ==
    /\ hp_pc = "idle"
    /\ hp_pc' = "done"
    /\ hp_data' = data
    /\ hp_out' = BrapiHistoricalPrices(data)

\* The caller has its result.
FinishBrapiPrices ==
    /\ hp_pc = "done"
    /\ hp_pc' = "idle"
    /\ hp_data' = NoQuoteData
    /\ hp_out' = NoHpOut

(***************************************************************************)
(* Part 7.  Concurrent requests and registry writes                        *)
(***************************************************************************)

\* Requests the event loop handles at the same time.
ReqIds == {1, 2}

\* Provider instances constructed in one behaviour of concurrent requests.
MaxConcInstances == 3

\* The route the concurrent requests name, the explicit names they pass,
\* and the name that is re-registered while they run.
ConcRoutes == {"get_available_assets"}
ConcNames == {None, "invalid_provider"}
ConcRegNames == {"brapi"}

IdleConc == [pc |-> "idle", pname |-> None, rname |-> None, inst |-> 0]

CcInit ==
    /\ cc_req = [r \in ReqIds |-> IdleConc]
    /\ cc_inst = <<>>

\* Faulty variant of CcGetProvider: the class is the one registered under
\* the name at construction of the manager.
CcGetProvider_Stale(r, pname, rname) ==
    /\ cc_req[r].pc = "idle"
    /\ LET n == ResolveName(default_providers, pname, rname) IN
         IF ~Registered(providers, n)
         THEN /\ cc_req' = [cc_req EXCEPT ![r] = [pc |-> "failed", pname |-> pname,
                                                  rname |-> rname, inst |-> 0]]
              /\ UNCHANGED cc_inst
         ELSE /\ Len(cc_inst) < MaxConcInstances
              /\ cc_inst' = Append(cc_inst, [cls |-> InitProviders[n], name |-> n,
                                             closed |-> FALSE, yielded |-> 1])
              /\ cc_req' = [cc_req EXCEPT ![r] = [pc |-> "in_block", pname |-> pname,
                                                  rname |-> rname,
                                                  inst |-> Len(cc_inst) + 1]]

\* Faulty variant of CcGetProvider: an instance of the class that a request
\* has released is yielded again.
CcGetProvider_Pooled(r, pname, rname) ==
    /\ cc_req[r].pc = "idle"
    /\ LET n == ResolveName(default_providers, pname, rname)
           pool == {i \in 1..Len(cc_inst) : Registered(providers, n)
                                              /\ cc_inst[i].cls = providers[n]} IN
         IF ~Registered(providers, n)
         THEN /\ cc_req' = [cc_req EXCEPT ![r] = [pc |-> "failed", pname |-> pname,
                                                  rname |-> rname, inst |-> 0]]
              /\ UNCHANGED cc_inst
         ELSE IF pool # {}
         THEN LET i == CHOOSE i \in pool : TRUE IN
              /\ cc_inst' = [cc_inst EXCEPT ![i].yielded = @ + 1]
              /\ cc_req' = [cc_req EXCEPT ![r] = [pc |-> "in_block", pname |-> pname,
                                                  rname |-> rname, inst |-> i]]
         ELSE /\ Len(cc_inst) < MaxConcInstances
              /\ cc_inst' = Append(cc_inst, [cls |-> providers[n], name |-> n,
                                             closed |-> FALSE, yielded |-> 1])
              /\ cc_req' = [cc_req EXCEPT ![r] = [pc |-> "in_block", pname |-> pname,
                                                  rname |-> rname,
                                                  inst |-> Len(cc_inst) + 1]]

\* get_provider of request r up to the yield.  Resolution, lookup and
\* construction contain no await, so they are one step of the event loop;
\* __aenter__ of both providers returns self without suspending.
CcGetProvider(r, pname, rname) ==
    /\ cc_req[r].pc = "idle"
    /\ LET n == ResolveName(default_providers, pname, rname) IN
         IF ~Registered(providers, n)
         THEN /\ cc_req' = [cc_req EXCEPT ![r] = [pc |-> "failed", pname |-> pname,
                                                  rname |-> rname, inst |-> 0]]
              /\ UNCHANGED cc_inst
         ELSE /\ Len(cc_inst) < MaxConcInstances
              /\ cc_inst' = Append(cc_inst, [cls |-> providers[n], name |-> n,
                                             closed |-> FALSE, yielded |-> 1])
              /\ cc_req' = [cc_req EXCEPT ![r] = [pc |-> "in_block", pname |-> pname,
                                                  rname |-> rname,
                                                  inst |-> Len(cc_inst) + 1]]

\* The finally clause of request r: __aexit__ of its instance, which for a
\* BrapiProvider closes the instance's own client.  When the block opened
\* a connection, closing it suspends __aexit__ with the client already
\* closed, and other tasks run before get_provider returns.
CcRelease(r, opened) ==
    /\ cc_req[r].pc = "in_block"
    /\ cc_inst' = [cc_inst EXCEPT ![cc_req[r].inst].closed = TRUE]
    /\ cc_req' = IF cc_inst[cc_req[r].inst].cls = "BrapiProvider" /\ opened
                 THEN [cc_req EXCEPT ![r].pc = "releasing"]
                 ELSE [cc_req EXCEPT ![r] = IdleConc]

\* The close of the client has ended: get_provider of request r returns.
CcReturn(r) ==
    /\ cc_req[r].pc = "releasing"
    /\ cc_req' = [cc_req EXCEPT ![r] = IdleConc]
    /\ UNCHANGED cc_inst

\* The ValueError of request r has reached its caller.
CcFail(r) ==
    /\ cc_req[r].pc = "failed"
    /\ cc_req' = [cc_req EXCEPT ![r] = IdleConc]
    /\ UNCHANGED cc_inst

(***************************************************************************)
(* Part 8.  ResponseUtil.success and ResponseUtil.error                    *)
(***************************************************************************)

\* A value held by a mapping: what it is and its number.
StrValue(n) == [of |-> "str", n |-> n]
IntValue(n) == [of |-> "int", n |-> n]
NoValue == [of |-> None, n |-> 0]

\* A dict is the set of its entries [key, val], one entry per key.
DictKeys(m) == {e.key : e \in m}

\* m[key]
DictItem(m, key) == (CHOOSE e \in m : e.key = key).val

\* dict.update(other), and {**m, **other}: the entries of other replace the
\* entries of m that have the same key.
DictUpdate(m, other) == {e \in m : e.key \notin DictKeys(other)} \cup other

\* datetime.now(UTC): seconds since the epoch and microseconds.
Clocks ==
    {[seconds |-> s, micros |-> u] :
        s \in {1700000000, 1700003599}, u \in {0, 999999}}

\* UTC offset of America/Sao_Paulo at the instant, in seconds: standard
\* time and daylight-saving time.
Offsets == {-10800, -7200}

\* _format_timestamp(dt): the wall-clock reading of dt in the local zone,
\* to the second, followed by the letter Z.  n is the reading as seconds
\* since 1970-01-01T00:00:00 on that wall clock.
FormatTimestamp(dt, offset) ==
    [of |-> "timestamp_Z", n |-> dt.seconds + offset]

\* _get_timezone_info(): {"timezone": {name, offset, is_dst}}
GetTimezoneInfo(offset) ==
    {[key |-> "timezone", val |-> [of |-> "timezone", n |-> offset]]}

\* Keys a caller's metadata or details can have.
CallerKeys == {"ticker", "timestamp", "status_code"}

\* The mappings a caller passes: given is FALSE when the argument is left
\* out or None.
CallerMappings ==
    {[given |-> FALSE, map |-> {}]}
    \cup {[given |-> TRUE, map |-> {[key |-> k, val |-> StrValue(1)] : k \in K}] :
             K \in SUBSET CallerKeys}

\* The status_code argument: left out, or a number.
StatusArgs ==
    {[given |-> FALSE, n |-> 0]}
    \cup {[given |-> TRUE, n |-> n] : n \in {0, 404, 500}}

\* Truth value of an optional argument: None, an empty dict and 0 are false.
TruthyMap(arg) == arg.given /\ arg.map # {}
TruthyInt(arg) == arg.given /\ arg.n # 0

\* "metadata = metadata or {}" then "metadata.update(...)": the mapping the
\* builder goes on with.
Merged(arg, offset) ==
    DictUpdate(IF TruthyMap(arg) THEN arg.map ELSE {}, GetTimezoneInfo(offset))

\* The caller's mapping after the call: update() acts on the caller's own
\* dict when that dict was kept by "or", and on a new dict otherwise.
CallerAfter(arg, offset) ==
    IF TruthyMap(arg) THEN Merged(arg, offset) ELSE arg.map

NoBuilt ==
    [success |-> FALSE, timestamp |-> NoValue, has_content |-> FALSE,
     has_metadata |-> FALSE, metadata |-> {}, has_error |-> FALSE,
     details |-> {}]

\* ResponseUtil.success(data, message, metadata)
BuildSuccess(has_data, metadata, dt, offset) ==
    [success |-> TRUE,
     timestamp |-> FormatTimestamp(dt, offset),
     has_content |-> has_data,
     has_metadata |-> Merged(metadata, offset) # {},
     metadata |-> Merged(metadata, offset),
     has_error |-> FALSE,
     details |-> {}]

\* ResponseUtil.error(code, message, details, status_code)
BuildError(details, status_code, dt, offset) ==
    [success |-> FALSE,
     timestamp |-> NoValue,
     has_content |-> FALSE,
     has_metadata |-> FALSE,
     metadata |-> {},
     has_error |-> TRUE,
     details |->
         DictUpdate(
             DictUpdate({[key |-> "timestamp", val |-> FormatTimestamp(dt, offset)]},
                        Merged(details, offset)),
             IF TruthyInt(status_code)
             THEN {[key |-> "status_code", val |-> IntValue(status_code.n)]}
             ELSE {})]

NoEvIn ==
    [fn |-> None, has_data |-> FALSE, map |-> [given |-> FALSE, map |-> {}],
     status_code |-> [given |-> FALSE, n |-> 0],
     now |-> [seconds |-> 0, micros |-> 0], offset |-> 0]

EvInit ==
    /\ ev_pc = "idle"
    /\ ev_in = NoEvIn
    /\ ev_caller = {}
    /\ ev_out = NoBuilt

\* One call of ResponseUtil.success.
CallSuccess(has_data, metadata, dt, offset) ==
    /\ ev_pc = "idle"
    /\ ev_pc' = "done"
    /\ ev_in' = [fn |-> "success", has_data |-> has_data, map |-> metadata,
                 status_code |-> [given |-> FALSE, n |-> 0],
                 now |-> dt, offset |-> offset]
    /\ ev_caller' = CallerAfter(metadata, offset)
    /\ ev_out' = BuildSuccess(has_data, metadata, dt, offset)

\* One call of ResponseUtil.error.
CallError(details, status_code, dt, offset) ==
    /\ ev_pc = "idle"
    /\ ev_pc' = "done"
    /\ ev_in' = [fn |-> "error", has_data |-> FALSE, map |-> details,
                 status_code |-> status_code, now |-> dt, offset |-> offset]
    /\ ev_caller' = CallerAfter(details, offset)
    /\ ev_out' = BuildError(details, status_code, dt, offset)

\* The caller has its envelope.
FinishBuild ==
    /\ ev_pc = "done"
    /\ ev_pc' = "idle"
    /\ ev_in' = NoEvIn
    /\ ev_caller' = {}
    /\ ev_out' = NoBuilt

vars == <<rqVars, indVars, mgrVars, rtVars, yhVars, hpVars, ccVars, evVars>>

InitRetry == RqInit /\ IndInit /\ MgrInit /\ RtInit /\ YhInit /\ HpInit /\ CcInit /\ EvInit

NextRetry ==
    \/ /\ \E v \in Variants, e \in Endpoints, t \in Tokens : CallMakeRequest(v, e, t)
       /\ UNCHANGED <<indVars, mgrVars, rtVars, yhVars, hpVars, ccVars, evVars>>
    \/ /\ IssueGet
       /\ UNCHANGED <<indVars, mgrVars, rtVars, yhVars, hpVars, ccVars, evVars>>
    \/ /\ Tick
       /\ UNCHANGED <<indVars, mgrVars, rtVars, yhVars, hpVars, ccVars, evVars>>
    \/ /\ ReceiveData
       /\ UNCHANGED <<indVars, mgrVars, rtVars, yhVars, hpVars, ccVars, evVars>>
    \/ /\ \E reply \in Replies : Attempt(reply)
       /\ UNCHANGED <<indVars, mgrVars, rtVars, yhVars, hpVars, ccVars, evVars>>
    \/ /\ FinishMakeRequest
       /\ UNCHANGED <<indVars, mgrVars, rtVars, yhVars, hpVars, ccVars, evVars>>

SpecRetry == InitRetry /\ [][NextRetry]_vars

\* A call that has started runs up to its GET, time passes while the GET
\* waits, and the client ends a GET that has waited for the timeout.  The
\* upstream owes nothing: it may never complete its reply.
SpecRetryFair ==
    /\ SpecRetry
    /\ WF_vars(IssueGet
                  /\ UNCHANGED <<indVars, mgrVars, rtVars, yhVars, hpVars, ccVars, evVars>>)
    /\ WF_vars(Tick
                  /\ UNCHANGED <<indVars, mgrVars, rtVars, yhVars, hpVars, ccVars, evVars>>)
    /\ WF_vars(ReadTimeout
                  /\ UNCHANGED <<indVars, mgrVars, rtVars, yhVars, hpVars, ccVars, evVars>>)

\* C1: when every transport attempt of a call fails with a transport-level
\* error, the upstream GET is issued exactly 3 times and only then does the
\* call fail, with a transport-error outcome.
AllTransport == \A i \in 1..Len(replies) : replies[i].kind = "transport"

C1_RetryBound ==
    (rq_pc = "done" /\ AllTransport) =>
        /\ gets = StopAfterAttempt
        /\ rq_out.kind = "raise"

InitInd == RqInit /\ IndInit /\ MgrInit /\ RtInit /\ YhInit /\ HpInit /\ CcInit /\ EvInit

NextInd ==
    \/ /\ \E t \in IndTickers, fetches \in [Sections -> Fetches] :
             StartIndicators(t, fetches)
       /\ UNCHANGED <<rqVars, mgrVars, rtVars, yhVars, hpVars, ccVars, evVars>>
    \/ /\ SubCall
       /\ UNCHANGED <<rqVars, mgrVars, rtVars, yhVars, hpVars, ccVars, evVars>>
    \/ /\ FinishIndicators
       /\ UNCHANGED <<rqVars, mgrVars, rtVars, yhVars, hpVars, ccVars, evVars>>

SpecInd == InitInd /\ [][NextInd]_vars

AllRan == \A s \in Sections : observed[s] # "notrun"
Failed == {s \in Sections : observed[s] \in SubFailures}

\* The names of a set of sections, in the order of SectionOrder.
InOrder(S) == SelectSeq(SectionOrder, LAMBDA s : s \in S)

\* C2: when one or two of the three sub-calls fail, the result is a success
\* whose payload holds null for each failed section and data for each
\* succeeded one, with partial_data = TRUE and failed_sections exactly the
\* failed names in section order; when none fails the result is a success
\* without the partial-data marker.
C2_PartialData ==
    (ind_pc = "done" /\ AllRan) =>
        /\ (Cardinality(Failed) \in {1, 2} =>
               /\ ind_out.kind = "return"
               /\ \A s \in Failed : ind_out.payload[s] = "null"
               /\ \A s \in Sections \ Failed : ind_out.payload[s] = "data"
               /\ ind_out.has_metadata
               /\ ind_out.metadata.partial_data
               /\ ind_out.metadata.failed_sections = InOrder(Failed))
        /\ (Failed = {} =>
               /\ ind_out.kind = "return"
               /\ ~ind_out.has_metadata)

\* C3: when all three sub-calls fail and at least one failure is a 404, the
\* result is that not-found error (404, ASSET_NOT_FOUND), whatever the other
\* failures are and wherever the 404 is.
C3_NotFoundWins ==
    (ind_pc = "done" /\ AllRan /\ Failed = Sections
       /\ \E s \in Sections : observed[s] = "http404") =>
        /\ ind_out.kind = "raise"
        /\ ind_out.status = 404
        /\ ind_out.code = "ASSET_NOT_FOUND"

C5_AllSubCallsRun ==
    ind_pc = "done" => \A s \in Sections : executed[s] = 1

InitMgr == RqInit /\ IndInit /\ MgrInit /\ RtInit /\ YhInit /\ HpInit /\ CcInit /\ EvInit

NextMgr ==
    \/ /\ \E n \in RegNames, c \in Classes : RegisterProvider(n, c)
       /\ UNCHANGED <<rqVars, indVars, rtVars, yhVars, hpVars, ccVars, evVars>>
    \/ /\ \E rt \in Routes, n \in Names : SetDefaultProviderForRoute(rt, n)
       /\ UNCHANGED <<rqVars, indVars, rtVars, yhVars, hpVars, ccVars, evVars>>
    \/ /\ \E pname \in Names \cup {None}, rname \in Routes \cup {None} :
            GetProvider(pname, rname)
       /\ UNCHANGED <<rqVars, indVars, rtVars, yhVars, hpVars, ccVars, evVars>>
    \/ /\ \E ok \in BOOLEAN : Enter(ok)
       /\ UNCHANGED <<rqVars, indVars, rtVars, yhVars, hpVars, ccVars, evVars>>
    \/ /\ \E raised \in BOOLEAN : BlockEnds(raised)
       /\ UNCHANGED <<rqVars, indVars, rtVars, yhVars, hpVars, ccVars, evVars>>
    \/ /\ Exit
       /\ UNCHANGED <<rqVars, indVars, rtVars, yhVars, hpVars, ccVars, evVars>>
    \/ /\ EndRequest
       /\ UNCHANGED <<rqVars, indVars, rtVars, yhVars, hpVars, ccVars, evVars>>

SpecMgr == InitMgr /\ [][NextMgr]_vars

\* A step that enters get_provider.
EntersGetProvider == req.pc = "idle" /\ req'.pc # "idle"

\* C6: every provider instance handed out by get_provider is released (its
\* __aexit__ is run) exactly once on every exit path of the block: no
\* instance is released twice, an instance not yet released is still held
\* by the block in progress, and a block that is over has released its own.
C6_ReleasedExactlyOnce ==
    /\ \A i \in 1..Len(instances) :
         /\ instances[i].exits <= 1
         /\ instances[i].exits = 0 =>
              (req.inst = i /\ req.pc \in {"entering", "in_block", "exiting"})
    /\ (req.pc = "done" /\ req.inst # 0) => instances[req.inst].exits = 1

\* A block that raised is over and its instance has been released once.
C6_Witness ==
    /\ req.pc = "done"
    /\ req.exc = "BlockError"
    /\ req.inst # 0
    /\ instances[req.inst].exits = 1

\* C7: when an explicit provider name is given it alone decides the outcome,
\* whatever the route name: an instance of the class registered under that
\* name is constructed, and ValueError is raised for a name that is not
\* registered.
C7_ExplicitNameWins ==
    [][(EntersGetProvider /\ req'.pname # None) =>
         IF req'.pname \in DOMAIN providers /\ providers[req'.pname] # None
         THEN /\ req'.pc = "entering"
              /\ req'.inst = Len(instances) + 1
              /\ Len(instances') = Len(instances) + 1
              /\ instances'[req'.inst].cls = providers[req'.pname]
              /\ instances'[req'.inst].name = req'.pname
         ELSE /\ req'.pc = "done"
              /\ req'.exc = "ValueError"
              /\ req'.inst = 0
              /\ instances' = instances]_vars

\* An explicit name was given together with a route whose default is another
\* provider, and the instance is of the explicitly named provider's class.
C7_Witness ==
    /\ req.pc = "entering"
    /\ req.pname = "yahoo"
    /\ req.rname = "get_available_assets"
    /\ default_providers[req.rname] = "brapi"
    /\ instances[req.inst].name = "yahoo"
    /\ instances[req.inst].cls = providers["yahoo"]

\* The name get_provider falls back on for a route without an entry is
\* registered in every state: it is registered at construction and no
\* operation removes a provider.
FallbackRegistered == Registered(providers, FallbackName)

\* C9: get_provider called with neither a provider name nor a route name
\* resolves to the global default and yields a BrapiProvider instance.
C9_NoArgumentsYieldBrapi ==
    [][(EntersGetProvider /\ req'.pname = None /\ req'.rname = None) =>
         /\ req'.pc = "entering"
         /\ req'.inst # 0
         /\ instances'[req'.inst].cls = "BrapiProvider"]_vars

\* C10: set_default_provider_for_route(route, name) with an unregistered name
\* raises and leaves the provider map and the per-route default map as they
\* were; with a registered name it changes the entry of that route to the
\* name and nothing else.
C10_SetDefault ==
    [][\A rt \in Routes, n \in Names :
         (/\ mgr_last'.op = "set_default_provider_for_route"
          /\ SetDefaultProviderForRoute(rt, n)) =>
            /\ providers' = providers
            /\ IF n \in DOMAIN providers /\ providers[n] # None
               THEN /\ ~mgr_last'.raised
                    /\ default_providers'[rt] = n
                    /\ \A other \in Routes \ {rt} :
                         default_providers'[other] = default_providers[other]
               ELSE /\ mgr_last'.raised
                    /\ default_providers' = default_providers]_vars

\* A call with an unregistered name has raised, and a route has been given a
\* provider registered after construction.
C10_Witness ==
    /\ mgr_last.op = "set_default_provider_for_route"
    /\ mgr_last.raised
    /\ default_providers["get_market_indicators"] = "test_provider"
    /\ providers["test_provider"] # None

\* C11: register_provider(name, cls) is idempotent by name: the call leaves
\* cls under name whatever was registered there before, changes no other
\* provider entry and no per-route default, and a second identical call
\* leaves the registry as the first one left it.
C11_RegisterIdempotent ==
    [][\A n \in RegNames, c \in Classes :
         (/\ mgr_last'.op = "register_provider"
          /\ RegisterProvider(n, c)) =>
            /\ providers'[n] = c
            /\ \A m \in Names \ {n} : providers'[m] = providers[m]
            /\ default_providers' = default_providers
            /\ providers[n] = c => providers' = providers]_vars

\* A name registered at construction has been overwritten with another class
\* and a new name has been added.
C11_Witness ==
    /\ mgr_last.op = "register_provider"
    /\ providers["brapi"] = "YahooProvider"
    /\ providers["test_provider"] # None
    /\ providers["yahoo"] = "YahooProvider"

\* The reply of the last GET of the call.
LastReply == replies[Len(replies)]

\* C12: a reply with an HTTP 4xx or 5xx status is never retried: it is the
\* reply of the only GET of its call, no backoff wait has happened, and the
\* call has failed with the HTTPException made from it.
C12_StatusNotRetried ==
    \A i \in 1..Len(replies) :
        (replies[i].kind = "status" /\ replies[i].status \in 400..599) =>
            /\ gets = 1
            /\ waits = <<>>
            /\ rq_pc = "done"
            /\ rq_out.kind = "raise"
            /\ rq_out.exc = "HTTPException"

C12_Witness ==
    /\ rq_pc = "done"
    /\ replies = <<[kind |-> "status", status |-> 503, content |-> "badjson",
                    body |-> NoBody]>>
    /\ gets = 1
    /\ rq_out.status = 503

\* The parts of C13 that do not concern a returned body: an empty or null
\* 2xx body fails exactly as an HTTP 404 reply does, with status 404, and
\* any other status that is not 2xx fails with an HTTPException of that
\* status.
C13_Failures ==
    /\ (LastReply.status = 200 /\ LastReply.content \in {"empty", "null"}) =>
         /\ rq_out = MakeRequestBody(rq_in, [kind |-> "status", status |-> 404,
                                             content |-> "badjson", body |-> NoBody])
         /\ rq_out.kind = "raise"
         /\ rq_out.status = 404
    /\ (LastReply.kind = "status" /\ LastReply.status # 404) =>
         /\ rq_out.kind = "raise"
         /\ rq_out.exc = "HTTPException"
         /\ rq_out.status = LastReply.status

\* C13: a finished request with a 2xx reply and a non-empty JSON body has
\* returned that body; an empty or null body fails as a 404 reply does;
\* any other reply that is not 2xx fails with the status of the reply.
C13_ReturnsThatBody ==
    rq_pc = "done" =>
        /\ (LastReply.status = 200 /\ LastReply.content = "data") =>
             /\ rq_out.kind = "return"
             /\ rq_out.value = LastReply.body
        /\ C13_Failures

\* C14: every call of the wrapper terminates, after at most 3 GETs and at
\* most 2 backoff waits, whatever the upstream does.
C14_Terminates ==
    /\ [](gets <= StopAfterAttempt /\ Len(waits) <= StopAfterAttempt - 1)
    /\ (rq_pc \in {"attempt", "awaiting"} ~> rq_pc = "done")

\* C20: the outcome of a finished request does not depend on the token: the
\* same call answered by the same reply under any other token value has the
\* same returned body, error status and error detail.
C20_TokenNotObservable ==
    rq_pc = "done" =>
        \A t \in Tokens :
            MakeRequestBody([rq_in EXCEPT !.token = t], LastReply) = rq_out

InitRoute == RqInit /\ IndInit /\ MgrInit /\ RtInit /\ YhInit /\ HpInit /\ CcInit /\ EvInit

\* One request is followed from its arrival to its response.  The registry
\* is a module-level object written by plain synchronous calls: another
\* task can write it at any time, also while the handler is suspended.
NextRoute ==
    \/ /\ \E ep \in MarketEndpoints, p \in ProviderParams, t \in Tokens,
             y \in YahooOutcomes : HandleMarket(ep, p, t, y)
       /\ UNCHANGED <<rqVars, indVars, mgrVars, yhVars, hpVars, ccVars, evVars>>
    \/ /\ \E reply \in Replies : UpstreamReplies(reply)
       /\ UNCHANGED <<rqVars, indVars, mgrVars, yhVars, hpVars, ccVars, evVars>>
    \/ /\ ProviderClosed
       /\ UNCHANGED <<rqVars, indVars, mgrVars, yhVars, hpVars, ccVars, evVars>>
    \/ /\ \E ep \in GatewayEndpoints \ MarketEndpoints, p \in ProviderParams :
             HandleMain(ep, p)
       /\ UNCHANGED <<rqVars, indVars, mgrVars, yhVars, hpVars, ccVars, evVars>>
    \/ /\ EndHandle
       /\ UNCHANGED <<rqVars, indVars, mgrVars, yhVars, hpVars, ccVars, evVars>>
    \/ /\ \E n \in RegNames, c \in Classes : RegisterProvider(n, c)
       /\ UNCHANGED <<rqVars, indVars, rtVars, yhVars, hpVars, ccVars, evVars>>
    \/ /\ \E rt \in Routes, n \in Names : SetDefaultProviderForRoute(rt, n)
       /\ UNCHANGED <<rqVars, indVars, rtVars, yhVars, hpVars, ccVars, evVars>>

SpecRoute == InitRoute /\ [][NextRoute]_vars

\* C15: a market route whose provider operation failed answers with an
\* error envelope (success false, a non-empty error.code), and with the
\* status of the failure when the failure is an HTTPException.
C15_FailureEnvelope ==
    (rt_pc = "done" /\ rt_in.endpoint \in MarketEndpoints /\ rt_op.kind = "raise") =>
        /\ rt_resp.kind = "envelope"
        /\ ~rt_resp.content.success
        /\ rt_resp.content.error.set
        /\ rt_resp.content.error.code \notin {None, ""}
        /\ rt_op.exc = "HTTPException" => rt_resp.http_status = rt_op.status

\* C16: every envelope an endpoint returns carries a timestamp, in
\* data.timestamp for a success and in error.details.timestamp for an error.
C16_Timestamped ==
    (rt_pc = "done" /\ rt_resp.kind = "envelope") =>
        IF rt_resp.content.success
        THEN rt_resp.content.data.timestamp
        ELSE rt_resp.content.error.timestamp

\* C17: every APIResponse returned has exactly one of data and error set,
\* data when success is true and error when success is false.
C17_ExactlyOne ==
    rt_resp.kind = "envelope" =>
        IF rt_resp.content.success
        THEN rt_resp.content.data.set /\ ~rt_resp.content.error.set
        ELSE rt_resp.content.error.set /\ ~rt_resp.content.data.set

\* A market route has answered a provider's HTTPException with an error
\* envelope.
C17_Witness ==
    /\ rt_pc = "done"
    /\ rt_in.endpoint = "/market/prices"
    /\ rt_op.exc = "HTTPException"
    /\ rt_resp.kind = "envelope"
    /\ rt_resp.http_status = 404
    /\ ~rt_resp.content.success
    /\ rt_resp.content.error.code = "NO_DATA_AVAILABLE"

\* C18: a market request that names a provider that is not registered is
\* answered with status 400 and an error envelope.
C18_InvalidProvider400 ==
    (/\ rt_pc = "done"
     /\ rt_in.endpoint \in MarketEndpoints
     /\ rt_in.provider # None
     /\ ~Registered(providers, rt_in.provider)) =>
        /\ rt_resp.http_status = 400
        /\ rt_resp.kind = "envelope"
        /\ rt_resp.content.error.set

\* C19: /providers answers with a success envelope that lists exactly the
\* registered provider names and reports a default provider.
C19_ProvidersListed ==
    (rt_pc = "done" /\ rt_in.endpoint = "/providers") =>
        /\ rt_resp.kind = "envelope"
        /\ rt_resp.content.success
        /\ rt_resp.content.data.available_providers
               = {n \in Names : Registered(providers, n)}
        /\ rt_resp.content.data.default_provider # None

InitYahoo == RqInit /\ IndInit /\ MgrInit /\ RtInit /\ YhInit /\ HpInit /\ CcInit /\ EvInit

NextYahoo ==
    \/ /\ yh_pc = "idle"
       /\ \E t \in YahooTickers, info \in InfoKinds, hist \in Histories,
             range \in RangeTokens, interval \in IntervalTokens :
             CallHistoricalPrices(t, info, hist, range, interval)
       /\ UNCHANGED <<rqVars, indVars, mgrVars, rtVars, hpVars, ccVars, evVars>>
    \/ /\ \E t \in YahooTickers, info \in InfoKinds : CallMarketIndicators(t, info)
       /\ UNCHANGED <<rqVars, indVars, mgrVars, rtVars, hpVars, ccVars, evVars>>
    \/ /\ yh_pc = "idle"
       /\ \E s \in Sections, t \in IndTickers, lookup \in InfoLookups :
             CallSubQuery(s, t, lookup)
       /\ UNCHANGED <<rqVars, indVars, mgrVars, rtVars, hpVars, ccVars, evVars>>
    \/ /\ FinishYahoo
       /\ UNCHANGED <<rqVars, indVars, mgrVars, rtVars, hpVars, ccVars, evVars>>

SpecYahoo == InitYahoo /\ [][NextYahoo]_vars

\* C21: ticker normalisation is idempotent, leaves a ticker that ends in
\* '.SA' unchanged, takes 'PETR4' and 'PETR4.SA' to 'PETR4.SA', and the
\* symbol of a returned HistoricalPrice is the normalised ticker.
C21_NormalizeIdempotent ==
    /\ \A t \in YahooTickers :
         /\ WithSuffix(WithSuffix(t)) = WithSuffix(t)
         /\ EndsWithSA(t) => WithSuffix(t) = t
    /\ WithSuffix(<<"PETR4">>) = <<"PETR4", ".SA">>
    /\ WithSuffix(<<"PETR4", ".SA">>) = <<"PETR4", ".SA">>
    /\ (yh_pc = "done" /\ yh_out.kind = "return") =>
         /\ yh_out.symbol = WithSuffix(yh_in.ticker)
         /\ EndsWithSA(yh_out.symbol)
         /\ WithSuffix(yh_out.symbol) = yh_out.symbol
         /\ EndsWithSA(yh_in.ticker) => yh_out.symbol = yh_in.ticker
         /\ ~EndsWithSA(yh_in.ticker) => yh_out.symbol = yh_in.ticker \o <<".SA">>

\* Prices were returned for 'PETR4' under the symbol 'PETR4.SA'.
C21_Witness ==
    /\ yh_pc = "done"
    /\ yh_in.ticker = <<"PETR4">>
    /\ yh_out.kind = "return"
    /\ yh_out.symbol = <<"PETR4", ".SA">>

\* The upstream lookups of the finished get_historical_prices call failed:
\* the info lookup raised (for an unknown ticker or for another reason), the
\* info was empty or lacked a market price, the history lookup raised, or
\* the history was empty.
LookupFailed ==
    /\ yh_pc = "done"
    /\ yh_in.op = "get_historical_prices"
    /\ \/ yh_up.info \in {"raises", "transport", "empty", "no_price"}
       \/ yh_up.hist.kind \in {"raises", "empty"}

EmptyHistory == yh_up.info = "full" /\ yh_up.hist.kind = "empty"

\* C22 (as stated): every upstream lookup failure of get_historical_prices
\* surfaces as a 404 with code ASSET_NOT_FOUND and the normalised ticker in
\* the details.
C22_LookupFailureIsAssetNotFound ==
    LookupFailed =>
        /\ yh_out.kind = "raise"
        /\ yh_out.status = 404
        /\ yh_out.code = "ASSET_NOT_FOUND"
        /\ yh_out.details_ticker = WithSuffix(yh_in.ticker)

\* C22 (amended): every upstream lookup failure surfaces as a 404 with the
\* normalised ticker in the details; the code is NO_DATA_AVAILABLE, with the
\* period and interval in the details, when the history is empty, and
\* ASSET_NOT_FOUND for the other failures.
C22_LookupFailureIs404 ==
    LookupFailed =>
        /\ yh_out.kind = "raise"
        /\ yh_out.status = 404
        /\ yh_out.details_ticker = WithSuffix(yh_in.ticker)
        /\ EndsWithSA(yh_out.details_ticker)
        /\ IF EmptyHistory
           THEN yh_out.code = "NO_DATA_AVAILABLE" /\ yh_out.details_period
           ELSE yh_out.code = "ASSET_NOT_FOUND" /\ ~yh_out.details_period

\* A known ticker with an empty history was answered NO_DATA_AVAILABLE.
C22_Witness ==
    /\ LookupFailed
    /\ EmptyHistory
    /\ yh_in.ticker = <<"PETR4">>
    /\ yh_out.code = "NO_DATA_AVAILABLE"
    /\ yh_out.details_ticker = <<"PETR4", ".SA">>

\* C25: get_market_indicators for a ticker for which get_historical_prices
\* reports ASSET_NOT_FOUND (whatever the history lookup gives) raises a 404
\* with code ASSET_NOT_FOUND and returns no success payload.
C25_UnknownTickerRejected ==
    (/\ yh_pc = "done"
     /\ yh_in.op = "get_market_indicators"
     /\ \A h \in Histories :
            YahooHistoricalPrices(yh_in.ticker, yh_up.info, h).code = "ASSET_NOT_FOUND") =>
        /\ yh_ind.kind = "raise"
        /\ yh_ind.status = 404
        /\ yh_ind.code = "ASSET_NOT_FOUND"

InitPrices == RqInit /\ IndInit /\ MgrInit /\ RtInit /\ YhInit /\ HpInit /\ CcInit /\ EvInit

NextPrices ==
    \/ /\ \E data \in QuoteData : CallBrapiPrices(data)
       /\ UNCHANGED <<rqVars, indVars, mgrVars, rtVars, yhVars, ccVars, evVars>>
    \/ /\ FinishBrapiPrices
       /\ UNCHANGED <<rqVars, indVars, mgrVars, rtVars, yhVars, ccVars, evVars>>

SpecPrices == InitPrices /\ [][NextPrices]_vars

\* C23: whenever BrapiProvider.get_historical_prices returns, its prices
\* are non-empty, in the order of the upstream entries, and every point has
\* a volume of at least 0.
C23_PricesNonEmptyOrdered ==
    (hp_pc = "done" /\ hp_out.kind = "return") =>
        /\ Len(hp_out.prices) > 0
        /\ \A i, j \in 1..Len(hp_out.prices) :
               i < j => hp_out.prices[i].index < hp_out.prices[j].index
        /\ \A i \in 1..Len(hp_out.prices) : hp_out.prices[i].volume >= 0

\* C24: a malformed entry never makes the call fail: for data with results
\* the call returns, with one point for each well-formed entry, in order.
C24_MalformedSkipped ==
    (hp_pc = "done" /\ hp_data.has_results) =>
        /\ hp_out.kind = "return"
        /\ \A i \in 1..Len(hp_data.entries) :
               (/\ hp_data.entries[i].date \in {"unix", "iso"}
                /\ hp_data.entries[i].open \in {"number", "missing"}
                /\ hp_data.entries[i].volume \in {"number", "missing"}) =>
                   \E k \in 1..Len(hp_out.prices) : hp_out.prices[k].index = i

\* C26: in every success envelope of a market route the metadata field
\* 'provider' is the name of the provider resolved for the request.
C26_MetadataProvider ==
    (/\ rt_pc = "done"
     /\ rt_in.endpoint \in MarketEndpoints
     /\ rt_resp.kind = "envelope"
     /\ rt_resp.content.success) =>
        rt_resp.content.data.provider = rt_held.name

\* C29: every name in the per-route default map is registered, and a
\* get_provider call that names only a route never fails to resolve.
C29_DefaultsRegistered ==
    /\ \A rt \in Routes :
           default_providers[rt] # None => Registered(providers, default_providers[rt])
    /\ (req.pname = None /\ req.rname # None) => req.exc # "ValueError"

\* After a failing set_default_provider_for_route call, a request resolved
\* by a route default that was assigned after construction is in its block.
C29_Witness ==
    /\ mgr_last.op = "set_default_provider_for_route"
    /\ mgr_last.raised
    /\ default_providers["get_market_indicators"] = "test_provider"
    /\ req.pname = None
    /\ req.rname = "get_market_indicators"
    /\ req.pc = "in_block"
    /\ instances[req.inst].name = "test_provider"

\* C30: when the provider resolved for the assets route is a YahooProvider,
\* which inherits asset search from the base class, the route answers with
\* a success envelope holding the (empty) asset list.
C30_InheritedAssetsSucceed ==
    (/\ rt_pc = "done"
     /\ rt_in.endpoint = "/market/assets"
     /\ rt_held.cls = "YahooProvider") =>
        /\ rt_resp.kind = "envelope"
        /\ rt_resp.http_status = 200
        /\ rt_resp.content.success
        /\ rt_resp.content.data.content

InitConc == RqInit /\ IndInit /\ MgrInit /\ RtInit /\ YhInit /\ HpInit /\ CcInit /\ EvInit

NextConc ==
    \/ /\ \E r \in ReqIds, pname \in ConcNames, rname \in ConcRoutes :
             CcGetProvider(r, pname, rname)
       /\ UNCHANGED <<rqVars, indVars, mgrVars, rtVars, yhVars, hpVars, evVars>>
    \/ /\ \E r \in ReqIds, opened \in BOOLEAN : CcRelease(r, opened)
       /\ UNCHANGED <<rqVars, indVars, mgrVars, rtVars, yhVars, hpVars, evVars>>
    \/ /\ \E r \in ReqIds : CcReturn(r)
       /\ UNCHANGED <<rqVars, indVars, mgrVars, rtVars, yhVars, hpVars, evVars>>
    \/ /\ \E r \in ReqIds : CcFail(r)
       /\ UNCHANGED <<rqVars, indVars, mgrVars, rtVars, yhVars, hpVars, evVars>>
    \/ /\ \E n \in ConcRegNames, c \in Classes : RegisterProvider(n, c)
       /\ UNCHANGED <<rqVars, indVars, rtVars, yhVars, hpVars, ccVars, evVars>>
    \/ /\ \E rt \in ConcRoutes, n \in Names : SetDefaultProviderForRoute(rt, n)
       /\ UNCHANGED <<rqVars, indVars, rtVars, yhVars, hpVars, ccVars, evVars>>

SpecConc == InitConc /\ [][NextConc]_vars

\* C27: a resolution made while the registry is being written yields an
\* instance of the class registered, at that step, under the name the
\* route's default gives (a registered name and a class, never a missing
\* entry), and a request keeps its instance, with the class it was
\* constructed with, across every registry write, from its resolution
\* until get_provider has released the instance and returned.
C27_ResolutionConsistent ==
    [][\A r \in ReqIds :
         /\ (cc_req[r].pc = "idle" /\ cc_req'[r].pc = "in_block") =>
              LET n == ResolveName(default_providers, cc_req'[r].pname,
                                   cc_req'[r].rname)
                  i == cc_req'[r].inst IN
              /\ Registered(providers, n)
              /\ i \in 1..Len(cc_inst')
              /\ cc_inst'[i].name = n
              /\ cc_inst'[i].cls = providers[n]
              /\ cc_inst'[i].cls = providers'[n]
              /\ cc_inst'[i].cls \in Classes
         /\ (/\ cc_req[r].pc \in {"in_block", "releasing"}
             /\ cc_req'[r].pc \in {"in_block", "releasing"}) =>
              /\ cc_req'[r].inst = cc_req[r].inst
              /\ cc_inst'[cc_req[r].inst].cls = cc_inst[cc_req[r].inst].cls
              /\ cc_inst'[cc_req[r].inst].name = cc_inst[cc_req[r].inst].name]_vars

\* Two requests are in their blocks with instances of different classes,
\* resolved before and after 'brapi' was re-registered.
C27_Witness ==
    /\ cc_req[1].pc = "in_block"
    /\ cc_req[2].pc = "in_block"
    /\ cc_inst[cc_req[1].inst].cls = "BrapiProvider"
    /\ cc_inst[cc_req[2].inst].cls = "YahooProvider"
    /\ providers["brapi"] = "YahooProvider"
    /\ mgr_last.op = "register_provider"

\* C28: every instance has been yielded to exactly one request, requests
\* that hold an instance (in their block or releasing it) hold different
\* instances, and the instance of a request in its block has not been
\* closed by the release of another request.
C28_FreshInstance ==
    /\ \A i \in 1..Len(cc_inst) : cc_inst[i].yielded = 1
    /\ \A r1, r2 \in ReqIds :
           (/\ r1 # r2
            /\ cc_req[r1].pc \in {"in_block", "releasing"}
            /\ cc_req[r2].pc \in {"in_block", "releasing"}) =>
               cc_req[r1].inst # cc_req[r2].inst
    /\ \A r \in ReqIds :
           cc_req[r].pc = "in_block" =>
               /\ cc_req[r].inst \in 1..Len(cc_inst)
               /\ ~cc_inst[cc_req[r].inst].closed

\* One request has released its first instance and is now closing the
\* client of its second, while the other request, which entered between
\* the two, is still in its block.
C28_Witness ==
    /\ Len(cc_inst) = 3
    /\ cc_inst[1].closed
    /\ cc_req[1].pc = "releasing"
    /\ cc_req[1].inst = 3
    /\ cc_inst[3].closed
    /\ cc_req[2].pc = "in_block"
    /\ cc_req[2].inst = 2

\* C31: the returned prices are an order-preserving subsequence of the
\* upstream entries, each point carrying the volume of its entry, and no
\* returned point comes from an entry that lacks open or volume.
C31_DroppedNotSubstituted ==
    (hp_pc = "done" /\ hp_out.kind = "return") =>
        /\ \A i, j \in 1..Len(hp_out.prices) :
               i < j => hp_out.prices[i].index < hp_out.prices[j].index
        /\ \A i \in 1..Len(hp_out.prices) :
               LET e == hp_data.entries[hp_out.prices[i].index] IN
               /\ e.open # "missing"
               /\ e.volume # "missing"
               /\ hp_out.prices[i].volume = e.value

\* C32: a failure of the info lookup that is not caused by an unknown
\* ticker is not reported as 404 ASSET_NOT_FOUND by a sub-query, and
\* get_market_indicators then ends with 500 INDICATORS_UNAVAILABLE.
C32_OtherFailureNot404 ==
    (yh_pc = "done" /\ yh_up.info = "transport") =>
        /\ yh_in.op \in Sections =>
               /\ yh_sub.kind = "raise"
               /\ yh_sub.status # 404
               /\ yh_sub.code # "ASSET_NOT_FOUND"
        /\ yh_in.op = "get_market_indicators" =>
               /\ yh_ind.kind = "raise"
               /\ yh_ind.status = 500
               /\ yh_ind.code = "INDICATORS_UNAVAILABLE"

\* The keys of the three sub-query mappings.
C33_Keys ==
    [fundamentals |->
         {"pe_ratio", "pb_ratio", "dividend_yield", "roe", "ebitda_margins",
          "debt_to_equity", "gross_margins", "profit_margins"},
     market_data |->
         {"market_cap", "average_volume", "beta", "fifty_two_week_high",
          "fifty_two_week_low", "short_ratio", "regular_market_price",
          "regular_market_volume"},
     analyst_info |->
         {"target_mean_price", "recommendation", "number_of_analysts",
          "earnings_growth", "revenue_growth", "recommendation_mean"}]

\* C33: a sub-query fetches the ticker info once and, when the info is
\* obtained (a non-empty mapping), returns a mapping with exactly its fixed
\* keys, in which a key whose field is present has the field's value and a
\* key whose field is missing is null; a missing field never makes it fail.
C33_SubQueryMapping ==
    (yh_pc = "done" /\ yh_in.op \in Sections) =>
        /\ yh_sub.fetches = 1
        /\ yh_up.fields # {} =>
               /\ yh_sub.kind = "return"
               /\ DOMAIN yh_sub.mapping = C33_Keys[yh_in.op]
               /\ \A k \in DOMAIN yh_sub.mapping :
                      \/ yh_sub.mapping[k] = None /\ KeysOf(yh_in.op)[k] \notin yh_up.fields
                      \/ /\ yh_sub.mapping[k] = KeysOf(yh_in.op)[k]
                         /\ yh_sub.mapping[k] \in yh_up.fields
               /\ yh_in.op = "fundamentals" =>
                      /\ yh_sub.mapping.roe = None
                      /\ "forwardPE" \in yh_up.fields =>
                             yh_sub.mapping.pe_ratio = "forwardPE"
                      /\ "forwardPE" \notin yh_up.fields =>
                             yh_sub.mapping.pe_ratio = None

\* get_market_data returned its eight keys for an info that has only
\* 'marketCap': market_cap has the value, every other key is null.
C33_Witness ==
    /\ yh_pc = "done"
    /\ yh_in.op = "market_data"
    /\ yh_up.fields = {"marketCap"}
    /\ yh_sub.kind = "return"
    /\ Cardinality(DOMAIN yh_sub.mapping) = 8
    /\ yh_sub.mapping.market_cap = "marketCap"
    /\ yh_sub.mapping.regular_market_price = None
    /\ yh_sub.mapping.beta = None

C34_Ranges ==
    {"1d", "5d", "1mo", "3mo", "6mo", "1y", "2y", "5y", "10y", "ytd", "max"}

C34_Intervals == {"1m", "5m", "15m", "30m", "1h", "1d", "1wk", "1mo"}

\* C34: the range and interval translations map every token into their
\* allow-list: a token on the list to itself, any other token (for the
\* interval also an absent or empty one) to '1d'; translating twice gives
\* the same as translating once; and the history lookup is asked for the
\* translated period and interval.
C34_TranslationsTotal ==
    /\ \A r \in RangeTokens :
         /\ ConvertYahooRange(r) \in C34_Ranges
         /\ r \in C34_Ranges => ConvertYahooRange(r) = r
         /\ r \notin C34_Ranges => ConvertYahooRange(r) = "1d"
         /\ ConvertYahooRange(ConvertYahooRange(r)) = ConvertYahooRange(r)
    /\ \A i \in IntervalTokens :
         /\ ConvertYahooInterval(i) \in C34_Intervals
         /\ i \in C34_Intervals => ConvertYahooInterval(i) = i
         /\ i \notin C34_Intervals => ConvertYahooInterval(i) = "1d"
         /\ ConvertYahooInterval(ConvertYahooInterval(i)) = ConvertYahooInterval(i)
    /\ (yh_pc = "done" /\ yh_in.op = "get_historical_prices" /\ yh_up.info = "full") =>
         /\ yh_up.period = IF yh_in.range \in C34_Ranges THEN yh_in.range ELSE "1d"
         /\ yh_up.interval =
                IF yh_in.interval \in C34_Intervals THEN yh_in.interval ELSE "1d"

\* A history was asked for with the range '1wk', which is an interval and
\* not a range, and no interval: the lookup got '1d' and '1d'.
C34_Witness ==
    /\ yh_pc = "done"
    /\ yh_in.op = "get_historical_prices"
    /\ yh_up.info = "full"
    /\ yh_in.range = "1wk"
    /\ yh_in.interval = None
    /\ yh_up.period = "1d"
    /\ yh_up.interval = "1d"

(***************************************************************************)
(* Specification of the envelope builders                                  *)
(***************************************************************************)
InitEnvelope == RqInit /\ IndInit /\ MgrInit /\ RtInit /\ YhInit /\ HpInit /\ CcInit /\ EvInit

NextEnvelope ==
    \/ /\ \E has_data \in BOOLEAN, metadata \in CallerMappings,
             dt \in Clocks, offset \in Offsets :
             CallSuccess(has_data, metadata, dt, offset)
       /\ UNCHANGED <<rqVars, indVars, mgrVars, rtVars, yhVars, hpVars, ccVars>>
    \/ /\ \E details \in CallerMappings, status_code \in StatusArgs,
             dt \in Clocks, offset \in Offsets :
             CallError(details, status_code, dt, offset)
       /\ UNCHANGED <<rqVars, indVars, mgrVars, rtVars, yhVars, hpVars, ccVars>>
    \/ /\ FinishBuild
       /\ UNCHANGED <<rqVars, indVars, mgrVars, rtVars, yhVars, hpVars, ccVars>>

SpecEnvelope == InitEnvelope /\ [][NextEnvelope]_vars

\* C35: the 'timestamp' of error.details is the builder's own stamp, also
\* when the caller's details have a 'timestamp' key, and 'status_code' is a
\* key of the details exactly when a status code was passed.
C35_BuilderTimestamp ==
    (ev_pc = "done" /\ ev_in.fn = "error") =>
        /\ "timestamp" \in DictKeys(ev_out.details)
        /\ DictItem(ev_out.details, "timestamp") =
               FormatTimestamp(ev_in.now, ev_in.offset)
        /\ "status_code" \in DictKeys(ev_out.details) <=> ev_in.status_code.given

\* C36: after success or error the caller's metadata or details mapping
\* has the entries it had before the call.
C36_CallerMappingUnchanged ==
    (ev_pc = "done" /\ ev_in.map.given) => ev_caller = ev_in.map.map

\* The timestamp an envelope carries: data.timestamp of a success
\* envelope, error.details['timestamp'] of an error envelope.
C37_Stamp ==
    IF ev_in.fn = "success" THEN ev_out.timestamp
    ELSE DictItem(ev_out.details, "timestamp")

\* C37: the timestamp of an envelope, read as UTC as its trailing 'Z' says,
\* is the instant at which the envelope was built, to the second.
C37_TimestampDenotesInstant ==
    (ev_pc = "done" /\ "timestamp" \notin DictKeys(ev_in.map.map)) =>
        /\ C37_Stamp.of = "timestamp_Z"
        /\ C37_Stamp.n = ev_in.now.seconds

====
